---------------------------- MODULE Spec2Model ----------------------------
(***************************************************************************)
(* Finance GPT: the retrieval-augmented question answering pipeline        *)
(* (frontend/rag).  The module models                                      *)
(*   - the Ticker Extractor (utils.py), a pure function on query text;     *)
(*   - RAGPipeline.process_query and retrieve_and_generate_response, one   *)
(*     action per step, the external calls nondeterministic;               *)
(*   - store_documents, the ingestion run against the Document Store and   *)
(*     the vector index.                                                   *)
(* Text is a TLA+ string; a character is a string of length 1.             *)
(* Floats of the code are fixed-point hundredths (0.4 is 40, 1.0 is 100).  *)
(* Optional[T] is a sequence: None is << >>, a present value v is <<v>>.   *)
(***************************************************************************)
EXTENDS Integers, Sequences, FiniteSets, TLC

VARIABLES
    pc,                 \* position of the running process_query call
    query,              \* process_query(query, ...)
    num_retrievals,     \* effective max_results handed to the generator
    ticker_extraction,  \* TickerExtractionResult of step 1
    retrieved_docs,     \* result of similarity_search
    news_items,         \* the list handed to rank_news_by_relevance
    ranked_news,        \* result of rank_news_by_relevance
    context,            \* result of format_news_for_context
    response,           \* value of chain.invoke, then the reconciled answer
    result,             \* value returned by retrieve_and_generate_response
    exc,                \* exception in flight: << >> or <<[kind, msg]>>
    pq_response,        \* the mapping process_query builds from the answer
    returned,           \* value returned by process_query
    calls,              \* how often each external call was issued
    failed,             \* history: the steps of this call that raised
    invoked,            \* history: the answer chain.invoke returned, if any
    ipc,                \* position of the running store_documents call
    collection,         \* Document Store: sequence of inserted records
    vector_store,       \* vector index: sequence of [id, page_content, metadata]
    scraped_documents,  \* scraper.run() of the current ingestion run
    duplicate_urls,     \* result of bulk_check_duplicates in the current run
    non_duplicate_docs, \* validated candidates of the current run
    uuids,              \* identifiers generated for the current run
    embedded,           \* documents of the current run added to the index
    next_uuid,          \* uuid4 source: identifiers handed out so far
    run_mode,           \* how the News Source response relates to the last run
    store_at_start,     \* history: Document Store when the current run began
    other,              \* the locals of a second store_documents call, while suspended
    chat_history,       \* st.session_state.chat_history: sequence of [role, content]
    shown_error,        \* details of the last StatusComponent.show_error, if any
    config,             \* the configuration the caller passes to process_query
    first_call,         \* history: what an earlier call with the same query saw and returned
    spc,                \* position of the running FinnHubScraper.run call
    scraper_tickers,    \* self.tickers
    start_date_obj,     \* self.start_date_obj, as a day of January 2024
    end_date_obj,       \* self.end_date_obj, as a day of January 2024
    ticker_index,       \* position of the for loop in self.tickers
    date,               \* the local date of scrape_and_store_news
    request_count,      \* self.request_count
    scraped_news,       \* self.scraped_news
    requests,           \* history: the (ticker, date) of every News Source request
    slept,              \* history: seconds spent in time.sleep by the scraper
    rpc,                \* position of the running retry_on_failure wrapper call
    max_retries,        \* retry_on_failure(max_retries, ...)
    delay,              \* retry_on_failure(..., delay, ...)
    backoff_factor,     \* retry_on_failure(..., backoff_factor)
    attempt,            \* the loop variable of the wrapper
    current_delay,      \* the local current_delay of the wrapper
    last_exception,     \* the local last_exception of the wrapper
    attempts,           \* history: the outcome of every call of the wrapped function
    sleeps,             \* history: the argument of every time.sleep of the wrapper
    outcome             \* how the wrapper call ended: << >>, a return or a raise

qvars == <<pc, query, num_retrievals, ticker_extraction, retrieved_docs,
           news_items, ranked_news, context, response, result, exc, pq_response, returned,
           calls, failed, invoked>>
ivars == <<ipc, collection, vector_store, scraped_documents, duplicate_urls,
           non_duplicate_docs, uuids, embedded, next_uuid, run_mode, store_at_start, other>>
cvars == <<chat_history, shown_error, config, first_call>>
tvars == <<spc, scraper_tickers, start_date_obj, end_date_obj, ticker_index, date,
           request_count, scraped_news, requests, slept, rpc, max_retries, delay,
           backoff_factor, attempt, current_delay, last_exception, attempts, sleeps,
           outcome>>
vars == <<qvars, ivars, cvars, tvars>>

None == << >>
Some(v) == <<v>>

Min(a, b) == IF a <= b THEN a ELSE b
Range(s) == {s[i] : i \in 1..Len(s)}
NoDuplicates(s) == \A i, j \in 1..Len(s) : i # j => s[i] # s[j]
\* s[:n]
Take(s, n) == SubSeq(s, 1, Min(n, Len(s)))
\* every ordering of a finite set: what list(a_set) can produce
Orderings(S) ==
    {s \in [1..Cardinality(S) -> S] : \A i, j \in 1..Cardinality(S) : i # j => s[i] # s[j]}

(***************************************************************************)
(* Text primitives: str.upper, str.lower, the "in" substring test and the  *)
(* regular-expression classes \w and [A-Z].                                *)
(***************************************************************************)
UpperLetters == "ABCDEFGHIJKLMNOPQRSTUVWXYZ"
LowerLetters == "abcdefghijklmnopqrstuvwxyz"
Digits == "0123456789_"

CharAt(s, i) == SubSeq(s, i, i)
IndexOf(c, alphabet) ==
    IF \E i \in 1..Len(alphabet) : CharAt(alphabet, i) = c
    THEN CHOOSE i \in 1..Len(alphabet) : CharAt(alphabet, i) = c
    ELSE 0
IsUpper(c) == IndexOf(c, UpperLetters) > 0
IsLower(c) == IndexOf(c, LowerLetters) > 0
\* \w: letters, digits and the underscore
IsWordChar(c) == IsUpper(c) \/ IsLower(c) \/ IndexOf(c, Digits) > 0
UpperChar(c) == IF IsLower(c) THEN CharAt(UpperLetters, IndexOf(c, LowerLetters)) ELSE c
LowerChar(c) == IF IsUpper(c) THEN CharAt(LowerLetters, IndexOf(c, UpperLetters)) ELSE c

RECURSIVE upper(_)
upper(s) == IF Len(s) = 0 THEN "" ELSE UpperChar(CharAt(s, 1)) \o upper(Tail(s))
RECURSIVE lower(_)
lower(s) == IF Len(s) = 0 THEN "" ELSE LowerChar(CharAt(s, 1)) \o lower(Tail(s))

\* needle in hay
Contains(hay, needle) ==
    \E i \in 1..(Len(hay) - Len(needle) + 1) : SubSeq(hay, i, i + Len(needle) - 1) = needle

\* \b between positions i and i+1 of s (i = 0 is the start, i = Len(s) the end)
WordBoundary(s, i) ==
    LET before == i >= 1 /\ IsWordChar(CharAt(s, i))
        after == i < Len(s) /\ IsWordChar(CharAt(s, i + 1))
    IN before # after
AllUpper(s, i, j) == \A k \in i..j : IsUpper(CharAt(s, k))

(***************************************************************************)
(* Ticker Extractor (frontend/rag/utils.py)                                *)
(***************************************************************************)
COMMON_TICKERS ==
    {"AAPL", "MSFT", "GOOGL", "GOOG", "AMZN", "TSLA", "META", "NVDA", "BRK.A",
     "BRK.B", "JPM", "JNJ", "V", "PG", "UNH", "HD", "MA", "BAC", "ABBV", "PFE",
     "KO", "AVGO", "PEP", "TMO", "COST", "DIS", "ABT", "DHR", "VZ", "ADBE",
     "NFLX", "XOM", "WMT", "CRM", "LLY", "ORCL", "ACN", "CVX", "MRK", "QCOM",
     "TXN", "AMD", "HON", "NKE", "IBM", "INTC", "BA", "GS", "CAT", "AMGN",
     "SBUX", "INTU", "BKNG", "ISRG"}

FINANCIAL_KEYWORDS ==
    {"stock", "stocks", "market", "trading", "investment", "portfolio",
     "earnings", "revenue", "profit", "loss", "dividend", "shares", "price",
     "valuation", "bull", "bear", "volatility", "analysis", "forecast",
     "outlook"}

\* the dict of company names: <<name, ticker>>
company_mappings ==
    {<<"APPLE", "AAPL">>, <<"MICROSOFT", "MSFT">>, <<"GOOGLE", "GOOGL">>,
     <<"ALPHABET", "GOOGL">>, <<"AMAZON", "AMZN">>, <<"TESLA", "TSLA">>,
     <<"META", "META">>, <<"FACEBOOK", "META">>, <<"NVIDIA", "NVDA">>,
     <<"BERKSHIRE", "BRK.A">>, <<"JPMORGAN", "JPM">>, <<"JOHNSON", "JNJ">>,
     <<"VISA", "V">>, <<"PROCTER", "PG">>, <<"GAMBLE", "PG">>,
     <<"NETFLIX", "NFLX">>, <<"DISNEY", "DIS">>, <<"WALMART", "WMT">>,
     <<"COCA", "KO">>, <<"COLA", "KO">>, <<"INTEL", "INTC">>,
     <<"BOEING", "BA">>, <<"GOLDMAN", "GS">>, <<"SACHS", "GS">>,
     <<"STARBUCKS", "SBUX">>, <<"ADOBE", "ADBE">>}

\* re.findall(r"\b[A-Z]{1,5}\b", s), as a set: the runs of 1 to 5 capital
\* letters that start and end at a word boundary
potential_tickers(s) ==
    {SubSeq(s, i, i + n - 1) : <<i, n>> \in
        {p \in (1..Len(s)) \X (1..5) :
            /\ p[1] + p[2] - 1 <= Len(s)
            /\ AllUpper(s, p[1], p[1] + p[2] - 1)
            /\ WordBoundary(s, p[1] - 1)
            /\ WordBoundary(s, p[1] + p[2] - 1)}}

\* found_tickers without the membership test against COMMON_TICKERS
found_tickers_unfiltered(q) ==
    LET query_upper == upper(q)
        mapped == {m[2] : m \in {c \in company_mappings : Contains(query_upper, c[1])}}
    IN potential_tickers(query_upper) \cup mapped

\* the set found_tickers that extract_tickers_from_query builds
found_tickers(q) ==
    LET query_upper == upper(q)
        direct == {t \in potential_tickers(query_upper) : t \in COMMON_TICKERS}
        mapped == {m[2] : m \in {c \in company_mappings : Contains(query_upper, c[1])}}
    IN direct \cup mapped

AnyTermIn(terms, text) == \E term \in terms : Contains(text, term)

\* determine_query_type with the keyword groups tried before the tickers
determine_query_type_keywords_first(q, tickers) ==
    LET query_lower == lower(q) IN
    IF AnyTermIn({"market", "economy", "sector", "industry", "overall", "general"},
                 query_lower) THEN "market_general"
    ELSE IF AnyTermIn({"news", "latest", "recent", "update", "announcement"},
                      query_lower) THEN "news_request"
    ELSE IF AnyTermIn({"analyze", "analysis", "forecast", "predict", "outlook"},
                      query_lower) THEN "analysis_request"
    ELSE IF AnyTermIn({"invest", "buy", "sell", "portfolio", "recommend"},
                      query_lower) THEN "investment_advice"
    ELSE IF Cardinality(tickers) = 1 THEN "stock_specific"
    ELSE IF Cardinality(tickers) > 1 THEN "multi_stock_comparison"
    ELSE "general_financial"

determine_query_type(q, tickers) ==
    LET query_lower == lower(q) IN
    IF tickers # {} /\ Cardinality(tickers) = 1 THEN "stock_specific"
    ELSE IF tickers # {} /\ Cardinality(tickers) > 1 THEN "multi_stock_comparison"
    ELSE IF AnyTermIn({"market", "economy", "sector", "industry", "overall", "general"},
                      query_lower) THEN "market_general"
    ELSE IF AnyTermIn({"news", "latest", "recent", "update", "announcement"},
                      query_lower) THEN "news_request"
    ELSE IF AnyTermIn({"analyze", "analysis", "forecast", "predict", "outlook"},
                      query_lower) THEN "analysis_request"
    ELSE IF AnyTermIn({"invest", "buy", "sell", "portfolio", "recommend"},
                      query_lower) THEN "investment_advice"
    ELSE "general_financial"

\* re.search(r"\$[A-Z]{1,5}\b", q): on the query as typed, not upper-cased
DollarTickerPattern(q) ==
    \E i \in 1..Len(q) : \E n \in 1..5 :
        /\ CharAt(q, i) = "$"
        /\ i + n <= Len(q)
        /\ AllUpper(q, i + 1, i + n)
        /\ WordBoundary(q, i + n)

financial_word_count(q) ==
    Cardinality({keyword \in FINANCIAL_KEYWORDS : Contains(lower(q), keyword)})

\* calculate_extraction_confidence without the 0.3 cap on the keyword bonus
calculate_extraction_confidence_uncapped(q, tickers) ==
    LET base == IF tickers # {} THEN 40 ELSE 0
        multi == IF tickers # {} /\ Cardinality(tickers) > 1 THEN 20 ELSE 0
        words == financial_word_count(q) * 10
        dollar == IF DollarTickerPattern(q) THEN 20 ELSE 0
    IN Min(base + multi + words + dollar, 100)

calculate_extraction_confidence(q, tickers) ==
    LET base == IF tickers # {} THEN 40 ELSE 0
        multi == IF tickers # {} /\ Cardinality(tickers) > 1 THEN 20 ELSE 0
        words == Min(financial_word_count(q) * 10, 30)
        dollar == IF DollarTickerPattern(q) THEN 20 ELSE 0
    IN Min(base + multi + words + dollar, 100)

\* The TickerExtractionResult values the call can return: tickers is
\* list(found_tickers), whose order the set's iteration decides.
extract_tickers_from_query(q) ==
    LET found == found_tickers(q) IN
    {[tickers |-> o,
      confidence |-> calculate_extraction_confidence(q, found),
      query_type |-> determine_query_type(q, found)] : o \in Orderings(found)}


(***************************************************************************)
(* More text primitives: str.split, str.replace, str.strip                 *)
(***************************************************************************)
IsSpace(c) == c \in {" ", "\n", "\t"}

FindFirst(s, needle) ==
    IF Contains(s, needle)
    THEN CHOOSE i \in 1..Len(s) :
            /\ i + Len(needle) - 1 <= Len(s)
            /\ SubSeq(s, i, i + Len(needle) - 1) = needle
            /\ \A k \in 1..(i - 1) : SubSeq(s, k, k + Len(needle) - 1) # needle
    ELSE 0
\* s.split(sep)[0]
BeforeFirst(s, sep) == IF Contains(s, sep) THEN SubSeq(s, 1, FindFirst(s, sep) - 1) ELSE s
\* what follows the first sep in s (s contains sep)
AfterFirst(s, sep) == SubSeq(s, FindFirst(s, sep) + Len(sep), Len(s))
\* s.replace(old, "")
RECURSIVE Remove(_, _)
Remove(s, old) ==
    IF Contains(s, old) THEN BeforeFirst(s, old) \o Remove(AfterFirst(s, old), old) ELSE s
RECURSIVE lstrip(_)
lstrip(s) == IF Len(s) > 0 /\ IsSpace(CharAt(s, 1)) THEN lstrip(Tail(s)) ELSE s
RECURSIVE rstrip(_)
rstrip(s) ==
    IF Len(s) > 0 /\ IsSpace(CharAt(s, Len(s))) THEN rstrip(SubSeq(s, 1, Len(s) - 1)) ELSE s
strip(s) == rstrip(lstrip(s))

\* set(s.split()): the maximal runs of non-blank characters
RECURSIVE SplitFrom(_, _, _)
SplitFrom(s, i, cur) ==
    IF i > Len(s) THEN (IF cur = "" THEN {} ELSE {cur})
    ELSE IF IsSpace(CharAt(s, i))
         THEN (IF cur = "" THEN {} ELSE {cur}) \cup SplitFrom(s, i + 1, "")
         ELSE SplitFrom(s, i + 1, cur \o CharAt(s, i))
Words(s) == SplitFrom(s, 1, "")

(***************************************************************************)
(* Values read from the vector index.  A metadata value is tagged with its *)
(* type, since the index does not type its metadata: a str or a null.      *)
(***************************************************************************)
Str(v) == [type |-> "str", v |-> v]
Null == [type |-> "null", v |-> ""]
\* metadata.get(key, default) on an Optional entry
GetOr(entry, default) == IF entry = None THEN default ELSE entry[1]

(***************************************************************************)
(* Steps 3 to 5 of retrieve_and_generate_response (frontend/rag/           *)
(* llm_chain.py) and the ranking and formatting helpers (utils.py)         *)
(***************************************************************************)
\* parse_document with the "Headline:" marker left in the headline
parse_document_keeps_marker(doc) ==
    LET content == doc.page_content
        parsed == Contains(content, "Headline:") /\ Contains(content, "Summary:")
        headline == IF parsed THEN strip(BeforeFirst(content, "Summary:")) ELSE ""
        summary == IF parsed
                   THEN strip(BeforeFirst(
                            BeforeFirst(AfterFirst(content, "Summary:"), "Summary:"),
                            "Ticker:"))
                   ELSE ""
    IN [headline |-> IF headline = "" THEN "No headline available" ELSE headline,
        summary |-> IF summary = "" THEN "No summary available" ELSE summary,
        ticker |-> GetOr(doc.metadata.ticker, Str("")),
        source |-> GetOr(doc.metadata.source, "Unknown"),
        relevance_score |-> 0]

\* step 3: one retrieved document to a news item dict
parse_document(doc) ==
    LET content == doc.page_content
        parsed == Contains(content, "Headline:") /\ Contains(content, "Summary:")
        headline == IF parsed
                    THEN strip(Remove(BeforeFirst(content, "Summary:"), "Headline:"))
                    ELSE ""
        summary == IF parsed
                   THEN strip(BeforeFirst(
                            BeforeFirst(AfterFirst(content, "Summary:"), "Summary:"),
                            "Ticker:"))
                   ELSE ""
    IN [headline |-> IF headline = "" THEN "No headline available" ELSE headline,
        summary |-> IF summary = "" THEN "No summary available" ELSE summary,
        ticker |-> GetOr(doc.metadata.ticker, Str("")),
        source |-> GetOr(doc.metadata.source, "Unknown"),
        relevance_score |-> 0]

\* calculate_relevance_score without the ticker term
calculate_relevance_score_words_only(item, q, tickers) ==
    LET query_words == Words(lower(q))
    IN Cardinality(query_words \cap Words(lower(item.headline))) * 10
       + Cardinality(query_words \cap Words(lower(item.summary))) * 5

calculate_relevance_score(item, q, tickers) ==
    LET query_words == Words(lower(q))
        item_ticker == upper(item.ticker.v)
        ticker_score == IF item_ticker \in Range(tickers) THEN 50 ELSE 0
        common_words == query_words \cap Words(lower(item.headline))
        common_summary_words == query_words \cap Words(lower(item.summary))
        recency == IF "datetime" \in DOMAIN item THEN 0 ELSE 0  \* the branch is "pass"
    IN ticker_score + Cardinality(common_words) * 10
                    + Cardinality(common_summary_words) * 5 + recency

\* item["relevance_score"] = calculate_relevance_score(item)
scored(item, q, tickers) ==
    [item EXCEPT !.relevance_score = calculate_relevance_score(item, q, tickers)]

\* sorted(items, key=relevance_score, reverse=True): a stable sort, equal
\* keys keep their input order
\* InsertDesc placing an item ahead of the items of equal score
InsertDesc_ahead(sorted, item) ==
    LET ahead == Cardinality({i \in 1..Len(sorted) :
                                sorted[i].relevance_score > item.relevance_score})
    IN SubSeq(sorted, 1, ahead) \o <<item>> \o SubSeq(sorted, ahead + 1, Len(sorted))
InsertDesc(sorted, item) ==
    LET ahead == Cardinality({i \in 1..Len(sorted) :
                                sorted[i].relevance_score >= item.relevance_score})
    IN SubSeq(sorted, 1, ahead) \o <<item>> \o SubSeq(sorted, ahead + 1, Len(sorted))
RECURSIVE SortedDesc(_)
SortedDesc(items) ==
    IF Len(items) = 0 THEN << >>
    ELSE InsertDesc(SortedDesc(SubSeq(items, 1, Len(items) - 1)), items[Len(items)])

\* item.get("ticker", "").upper() raises AttributeError on a null ticker
RankRaises(items) == \E i \in 1..Len(items) : items[i].ticker.type # "str"

\* rank_news_by_relevance with the list reversed before the sort
rank_news_by_relevance_reversed(items, q, tickers) ==
    IF Len(items) = 0 THEN << >>
    ELSE SortedDesc([i \in 1..Len(items) |-> scored(items[Len(items) + 1 - i], q, tickers)])

rank_news_by_relevance(items, q, tickers) ==
    IF Len(items) = 0 THEN << >>
    ELSE SortedDesc([i \in 1..Len(items) |-> scored(items[i], q, tickers)])

IntToStr(n) == IF n < 10 THEN CharAt("0123456789", n + 1) ELSE "1" \o CharAt("0123456789", n - 9)

RECURSIVE JoinLines(_)
JoinLines(parts) ==
    IF Len(parts) = 0 THEN ""
    ELSE IF Len(parts) = 1 THEN parts[1]
    ELSE parts[1] \o "\n" \o JoinLines(Tail(parts))

\* news_items[:10]
CONTEXT_LIMIT == 10

\* format_news_for_context without the limit to the top 10
format_news_for_context_unlimited(items) ==
    IF Len(items) = 0 THEN "No recent news available."
    ELSE JoinLines([i \in 1..Len(items) |->
            IntToStr(i) \o ". " \o items[i].headline \o "\n"
            \o "   Summary: " \o items[i].summary \o "\n"
            \o "   Ticker: " \o items[i].ticker.v \o "\n"
            \o "   Source: " \o items[i].source \o "\n"])

format_news_for_context(items) ==
    IF Len(items) = 0 THEN "No recent news available."
    ELSE JoinLines([i \in 1..Min(CONTEXT_LIMIT, Len(items)) |->
            IntToStr(i) \o ". " \o items[i].headline \o "\n"
            \o "   Summary: " \o items[i].summary \o "\n"
            \o "   Ticker: " \o items[i].ticker.v \o "\n"
            \o "   Source: " \o items[i].source \o "\n"])


(***************************************************************************)
(* Records of the two stores.  A scraped news item keeps the fields the    *)
(* pipeline reads; summary is Optional because the News Source may send    *)
(* null, which DocumentModel (summary: str) rejects.                       *)
(***************************************************************************)
Article(url, headline, summary, ticker) ==
    [url |-> url, headline |-> headline, summary |-> summary, ticker |-> ticker]

A1 == Article("https://n/1", "AAPL outlook improves", Some("Apple raises the outlook"), "AAPL")
A2 == Article("https://n/2", "MSFT vs rivals", Some("Microsoft cloud grows"), "MSFT")
A3 == Article("https://n/3", "Tesla recall", Some("Tesla recalls cars"), "TSLA")
A4 == Article("https://n/4", "Chip demand", Some("Nvidia sells more"), "NVDA")
\* a malformed item under the url of A1
Malformed == Article("https://n/1", "AAPL outlook improves", None, "AAPL")

\* DocumentModel(**doc): pydantic validation of the required str fields
DocumentModelValid(doc) == doc.summary # None

\* the Document built for the vector index from a validated record
vector_document(doc) ==
    [page_content |-> "Headline: " \o doc.headline \o " Summary: " \o doc.summary[1]
                        \o " Ticker: " \o doc.ticker,
     metadata |-> [source |-> Some(doc.url), ticker |-> Some(Str(doc.ticker))]]

\* index entries that ingestion did not write: free text without metadata,
\* and an entry whose ticker metadata is null
ForeignDoc == [page_content |-> "Market wrap for the week",
               metadata |-> [source |-> None, ticker |-> None]]
NullTickerDoc == [page_content |-> "Headline: Fed holds rates Summary: No change",
                  metadata |-> [source |-> Some("https://n/9"), ticker |-> Some(Null)]]

(***************************************************************************)
(* Inputs of the query path                                                *)
(***************************************************************************)
DEFAULT_MAX_RESULTS == 5
TOP_NEWS_LIMIT == 5
\* largest max_results a caller passes
MaxResults == 6

PipelineQueries == {"", "What's the outlook for AAPL?"}
\* max_results arguments: 0 stands for the falsy values None and 0
MaxResultsArgs == {0, MaxResults}

\* documents the index can hold
Corpus == {vector_document(A1), ForeignDoc, NullTickerDoc}

RECURSIVE SeqsUpTo(_, _)
SeqsUpTo(S, n) ==
    IF n = 0 THEN {<< >>}
    ELSE LET shorter == SeqsUpTo(S, n - 1)
         IN shorter \cup {Append(t, x) : t \in {u \in shorter : Len(u) = n - 1}, x \in S}

\* vector_store.similarity_search(query, k=n): at most n documents
SearchResults(n) == SeqsUpTo(Corpus, n)

\* exceptions of the external libraries: plain Exception subclasses, none of
\* the FinanceGPTError classes is raised anywhere in the code
LibraryError(msg) == [kind |-> "Exception", msg |-> msg]

NewsItem(headline, summary, ticker, source, relevance_score) ==
    [headline |-> headline, summary |-> summary, ticker |-> ticker, source |-> source,
     relevance_score |-> relevance_score, date |-> None]

FinancialAnswer(summary, key_insights, top_news, mentioned_tickers, sentiment, confidence_score, market_outlook) ==
    [summary |-> summary, key_insights |-> key_insights, top_news |-> top_news,
     mentioned_tickers |-> mentioned_tickers, sentiment |-> sentiment,
     confidence_score |-> confidence_score, market_outlook |-> market_outlook]

\* What chain.invoke can return: PydanticOutputParser accepts every object
\* of the FinancialAnswer schema, where sentiment is Optional[str] and
\* confidence_score is Optional[float] with no further validation.
LLMCitation == NewsItem("Model citation", "Cited by the model", "NVDA", "llm", None)
LLMAnswers ==
    {FinancialAnswer("Analysis.", <<"insight">>, news, tickers, sc[1], sc[2], None) :
        news \in {<< >>, <<LLMCitation>>},
        tickers \in {<< >>, <<"NVDA", "AAPL", "NVDA">>},
        sc \in {<<Some("positive"), Some(85)>>,
                <<Some("bullish"), Some(150)>>,
                <<None, None>>}}


(***************************************************************************)
(* Fallback / error policy (frontend/rag/error_handling.py)                *)
(***************************************************************************)
\* isinstance(error, cls) for the classes of the module
IsInstance(error, cls) == error.kind = cls

create_fallback_response(q, error) ==
    LET summary ==
            IF IsInstance(error, "FinnhubAPIError") THEN
                "I'm currently unable to fetch the latest financial data from external sources. Please try again in a few minutes."
            ELSE IF IsInstance(error, "VectorStoreError") THEN
                "I'm experiencing issues with my knowledge base. I can provide general information but may not have the latest updates."
            ELSE IF IsInstance(error, "LLMError") THEN
                "I'm having trouble processing your request right now. Please try rephrasing your question or try again later."
            ELSE IF IsInstance(error, "MongoDBError") THEN
                "I'm experiencing database connectivity issues. Some features may be limited."
            ELSE "I encountered an unexpected error while processing your request: " \o error.msg
        insights ==
            IF IsInstance(error, "FinnhubAPIError") THEN
                <<"External financial data service is temporarily unavailable">>
            ELSE IF IsInstance(error, "VectorStoreError") THEN
                <<"Knowledge base temporarily unavailable",
                  "Consider asking about general financial concepts">>
            ELSE IF IsInstance(error, "LLMError") THEN
                <<"Language model temporarily unavailable", "Try asking simpler questions">>
            ELSE IF IsInstance(error, "MongoDBError") THEN
                <<"Database connection issues", "Historical data may be unavailable">>
            ELSE <<"Unexpected system error occurred", "Please try again or contact support">>
    IN FinancialAnswer(summary, insights, << >>, << >>, Some("neutral"), Some(0),
                       Some("Unable to provide outlook due to system error"))

\* generator_fallback leaving sentiment and confidence_score at their
\* defaults (None)
generator_fallback_defaults(error) ==
    FinancialAnswer(
        "I apologize, but I encountered an error while processing your query: " \o error.msg,
        <<"Unable to process query due to technical error">>,
        << >>, << >>, None, None,
        Some("Unable to provide outlook due to error"))

\* the answer built in the except clause of retrieve_and_generate_response
generator_fallback(error) ==
    FinancialAnswer(
        "I apologize, but I encountered an error while processing your query: " \o error.msg,
        <<"Unable to process query due to technical error">>,
        << >>, << >>, Some("neutral"), Some(0),
        Some("Unable to provide outlook due to error"))

(***************************************************************************)
(* Step 9 of retrieve_and_generate_response and the mapping built by       *)
(* process_query                                                           *)
(***************************************************************************)
\* a + b without the set: duplicates survive
reconciled_tickers_concat(model_tickers, extracted) == {model_tickers \o extracted}

\* list(set(a + b)): the orderings of the union
reconciled_tickers(model_tickers, extracted) == Orderings(Range(model_tickers \o extracted))

\* structured_news without the [:5] slice
structured_news_unbounded(ranked) ==
    [i \in 1..Len(ranked) |->
        NewsItem(ranked[i].headline, ranked[i].summary, ranked[i].ticker.v,
                 ranked[i].source, Some(ranked[i].relevance_score))]

structured_news(ranked) ==
    [i \in 1..Len(Take(ranked, TOP_NEWS_LIMIT)) |->
        NewsItem(ranked[i].headline, ranked[i].summary, ranked[i].ticker.v,
                 ranked[i].source, Some(ranked[i].relevance_score))]

\* the dict process_query returns for a FinancialAnswer
answer_mapping(answer, news) ==
    [summary |-> answer.summary,
     key_insights |-> answer.key_insights,
     mentioned_tickers |-> answer.mentioned_tickers,
     sentiment |-> answer.sentiment,
     confidence_score |-> answer.confidence_score,
     related_news |-> news,
     sources |-> << >>]

(***************************************************************************)
(* RAGPipeline.process_query, one action per step                          *)
(***************************************************************************)
NoExtraction == [tickers |-> << >>, confidence |-> 0, query_type |-> ""]
NoCalls == [search |-> 0, llm |-> 0, log |-> 0]

InitQuery ==
    /\ pc = "idle"
    /\ query = ""
    /\ num_retrievals = DEFAULT_MAX_RESULTS
    /\ ticker_extraction = NoExtraction
    /\ retrieved_docs = << >>
    /\ news_items = << >>
    /\ ranked_news = << >>
    /\ context = ""
    /\ response = None
    /\ result = None
    /\ exc = None
    /\ pq_response = None
    /\ returned = None
    /\ calls = NoCalls
    /\ failed = {}
    /\ invoked = None

\* process_query(q, max_results=arg): the configuration is resolved and
\* retrieve_and_generate_response(query, num_retrievals=max_results) entered
Call(q, arg) ==
    /\ pc = "idle"
    /\ query' = q
    /\ num_retrievals' = IF arg = 0 THEN DEFAULT_MAX_RESULTS ELSE arg
    /\ pc' = "extract"
    /\ UNCHANGED <<ticker_extraction, retrieved_docs, news_items, ranked_news, context, response,
                   result, exc, pq_response, returned, calls, failed, invoked, ivars, cvars, tvars>>

\* step 1
ExtractTickers ==
    /\ pc = "extract"
    /\ ticker_extraction' \in extract_tickers_from_query(query)
    /\ pc' = "search"
    /\ UNCHANGED <<query, num_retrievals, retrieved_docs, news_items, ranked_news, context, response,
                   result, exc, pq_response, returned, calls, failed, invoked, ivars, cvars, tvars>>

\* step 2, the search returns
SearchReturns ==
    /\ pc = "search"
    /\ calls' = [calls EXCEPT !.search = @ + 1]
    /\ retrieved_docs' \in SearchResults(num_retrievals)
    /\ pc' = "rank"
    /\ UNCHANGED <<news_items, query, num_retrievals, ticker_extraction, ranked_news, context,
                   response, result, exc, pq_response, returned, failed, invoked, ivars, cvars, tvars>>

\* SearchRaises with the failure passed over: the call goes on to step 3
\* with no documents
SearchRaises_continues ==
    /\ pc = "search"
    /\ calls' = [calls EXCEPT !.search = @ + 1]
    /\ pc' = "rank"
    /\ UNCHANGED <<query, num_retrievals, ticker_extraction, retrieved_docs, news_items,
                   ranked_news, context, response, result, exc, pq_response, returned,
                   invoked, ivars, cvars, tvars>>
    /\ failed' = failed \cup {"search"}

\* step 2, initialize_vector_store or the search raises
SearchRaises ==
    /\ pc = "search"
    /\ calls' = [calls EXCEPT !.search = @ + 1]
    /\ exc' = Some(LibraryError("vector index unreachable"))
    /\ pc' = "generator_except"
    /\ UNCHANGED <<query, num_retrievals, ticker_extraction, retrieved_docs, news_items, ranked_news,
                   context, response, result, pq_response, returned, invoked, ivars, cvars, tvars>>
    /\ failed' = failed \cup {"search"}

\* steps 3 to 5: parse, rank, compose the context.  The ranking writes the
\* relevance_score into the items of the list one after the other, so a
\* raising item leaves the items before it scored.
RankAndCompose ==
    /\ pc = "rank"
    /\ LET parsed == [i \in 1..Len(retrieved_docs) |-> parse_document(retrieved_docs[i])]
           tickers == ticker_extraction.tickers
           ranked == rank_news_by_relevance(parsed, query, tickers)
       IN IF RankRaises(parsed)
          THEN /\ exc' = Some(LibraryError("'NoneType' object has no attribute 'upper'"))
               /\ failed' = failed \cup {"rank"}
               /\ pc' = "generator_except"
               /\ news_items' = [i \in 1..Len(parsed) |->
                                    IF RankRaises(SubSeq(parsed, 1, i)) THEN parsed[i]
                                    ELSE scored(parsed[i], query, tickers)]
               /\ UNCHANGED <<ranked_news, context>>
          ELSE /\ news_items' = [i \in 1..Len(parsed) |-> scored(parsed[i], query, tickers)]
               /\ ranked_news' = ranked
               /\ context' = format_news_for_context(ranked)
               /\ pc' = "invoke"
               /\ UNCHANGED <<exc, failed>>
    /\ UNCHANGED <<query, num_retrievals, ticker_extraction, retrieved_docs, response,
                   result, pq_response, returned, calls, invoked, ivars, cvars, tvars>>

\* steps 6 to 8, the chain returns a parsed FinancialAnswer
InvokeReturns ==
    /\ pc = "invoke"
    /\ calls' = [calls EXCEPT !.llm = @ + 1]
    /\ \E a \in LLMAnswers : response' = Some(a) /\ invoked' = Some(a)
    /\ pc' = "reconcile"
    /\ UNCHANGED <<query, num_retrievals, ticker_extraction, retrieved_docs, news_items, ranked_news,
                   context, result, exc, pq_response, returned, failed, ivars, cvars, tvars>>

\* steps 6 to 8, the completion service or the output parser raises
InvokeRaises ==
    /\ pc = "invoke"
    /\ calls' = [calls EXCEPT !.llm = @ + 1]
    /\ exc' = Some(LibraryError("completion failed"))
    /\ pc' = "generator_except"
    /\ UNCHANGED <<query, num_retrievals, ticker_extraction, retrieved_docs, news_items, ranked_news,
                   context, response, result, pq_response, returned, invoked, ivars, cvars, tvars>>
    /\ failed' = failed \cup {"invoke"}

\* step 9 and the return
Reconcile ==
    /\ pc = "reconcile"
    /\ \E tickers \in reconciled_tickers(response[1].mentioned_tickers,
                                         ticker_extraction.tickers) :
        LET answer == [response[1] EXCEPT !.mentioned_tickers = tickers,
                                          !.top_news = structured_news(ranked_news)]
        IN response' = Some(answer) /\ result' = Some(answer)
    /\ pc' = "convert"
    /\ UNCHANGED <<query, num_retrievals, ticker_extraction, retrieved_docs, news_items, ranked_news,
                   context, exc, pq_response, returned, calls, failed, invoked, ivars, cvars, tvars>>

\* GeneratorExcept with one retry of a failed search
GeneratorExcept_retries ==
    /\ pc = "generator_except"
    /\ IF "search" \in failed /\ calls.search < 2
       THEN pc' = "search" /\ UNCHANGED result
       ELSE pc' = "convert" /\ result' = Some(generator_fallback(exc[1]))
    /\ exc' = None
    /\ UNCHANGED <<query, num_retrievals, ticker_extraction, retrieved_docs, news_items,
                   ranked_news, context, response, pq_response, returned, calls, failed,
                   invoked, ivars, cvars, tvars>>

\* except Exception in retrieve_and_generate_response: the error is
\* swallowed and a FinancialAnswer returned
GeneratorExcept ==
    /\ pc = "generator_except"
    /\ result' = Some(generator_fallback(exc[1]))
    /\ exc' = None
    /\ pc' = "convert"
    /\ UNCHANGED <<query, num_retrievals, ticker_extraction, retrieved_docs, news_items, ranked_news,
                   context, response, pq_response, returned, calls, failed, invoked, ivars, cvars, tvars>>

\* process_query builds the mapping of the FinancialAnswer
Convert ==
    /\ pc = "convert"
    /\ pq_response' = Some(answer_mapping(result[1], result[1].top_news))
    /\ pc' = "log"
    /\ UNCHANGED <<query, num_retrievals, ticker_extraction, retrieved_docs, news_items, ranked_news,
                   context, response, result, exc, returned, calls, failed, invoked, ivars, cvars, tvars>>

\* log_user_interaction returns; process_query returns the mapping
LogReturns ==
    /\ pc = "log"
    /\ calls' = [calls EXCEPT !.log = @ + 1]
    /\ returned' = pq_response
    /\ pc' = "done"
    /\ UNCHANGED <<query, num_retrievals, ticker_extraction, retrieved_docs, news_items, ranked_news,
                   context, response, result, exc, pq_response, failed, invoked, ivars, cvars, tvars>>

\* log_user_interaction raises inside the try block
LogRaises ==
    /\ pc = "log"
    /\ calls' = [calls EXCEPT !.log = @ + 1]
    /\ exc' = Some(LibraryError("log file not writable"))
    /\ pc' = "pipeline_except"
    /\ UNCHANGED <<query, num_retrievals, ticker_extraction, retrieved_docs, news_items, ranked_news,
                   context, response, result, pq_response, returned, invoked, ivars, cvars, tvars>>
    /\ failed' = failed \cup {"log"}

\* process_query without its except clause: the exception leaves the call
PipelineExcept_reraises ==
    /\ pc = "pipeline_except"
    /\ pc' = "raised"
    /\ UNCHANGED <<query, num_retrievals, ticker_extraction, retrieved_docs, news_items, ranked_news,
                   context, response, result, exc, pq_response, returned, calls, failed,
                   invoked, ivars, cvars, tvars>>

\* except Exception in process_query
PipelineExcept ==
    /\ pc = "pipeline_except"
    /\ returned' = Some(answer_mapping(create_fallback_response(query, exc[1]), << >>))
    /\ exc' = None
    /\ pc' = "done"
    /\ UNCHANGED <<query, num_retrievals, ticker_extraction, retrieved_docs, news_items, ranked_news,
                   context, response, result, pq_response, calls, failed, invoked, ivars, cvars, tvars>>

NextQuery ==
    \/ \E q \in PipelineQueries, arg \in MaxResultsArgs : Call(q, arg)
    \/ ExtractTickers
    \/ SearchReturns
    \/ SearchRaises
    \/ RankAndCompose
    \/ InvokeReturns
    \/ InvokeRaises
    \/ Reconcile
    \/ GeneratorExcept
    \/ Convert
    \/ LogReturns
    \/ LogRaises
    \/ PipelineExcept

(***************************************************************************)
(* Ingestion: store_documents (frontend/rag/vector_search.py), one action  *)
(* per external call.  The Document Store and the vector index start       *)
(* empty; at most two runs are followed, the second one on a fresh         *)
(* response, on the unchanged response, or on the response plus one item.  *)
(***************************************************************************)
\* longest News Source response of a run
MaxBatch == 3

\* items the News Source serves; LateArticles are published after the first run
FreshArticles == {A1, A2, A3, Malformed}
LateArticles == {A4}
Batches == SeqsUpTo(FreshArticles, MaxBatch)

Urls(docs) == {docs[i].url : i \in 1..Len(docs)}
IsNew(doc) == doc.url \notin duplicate_urls

\* a duplicate check that finds nothing
bulk_check_duplicates_none(document_urls, stored) == {}

\* collection.find({"url": {"$in": document_urls}}): the urls already stored
bulk_check_duplicates(document_urls, stored) == document_urls \cap Urls(stored)

\* Candidates without the filter on duplicate_urls
Candidates_all == scraped_documents

\* [doc for doc in scraped_documents if doc["url"] not in duplicate_urls]
Candidates == SelectSeq(scraped_documents, IsNew)

InitIngest ==
    /\ ipc = "idle"
    /\ collection = << >>
    /\ vector_store = << >>
    /\ scraped_documents = << >>
    /\ duplicate_urls = {}
    /\ non_duplicate_docs = << >>
    /\ uuids = << >>
    /\ embedded = 0
    /\ next_uuid = 0
    /\ run_mode = "none"
    /\ store_at_start = << >>
    /\ other = [ipc |-> "idle", scraped_documents |-> << >>, duplicate_urls |-> {},
                non_duplicate_docs |-> << >>, uuids |-> << >>, embedded |-> 0,
                run_mode |-> "none", store_at_start |-> << >>]

\* the responses a run in the given mode can scrape
Responses(mode) ==
    CASE mode = "first" -> Batches
      [] mode = "another" -> Batches
      [] mode = "rerun" -> {scraped_documents}
      [] mode = "plus_one" ->
            {Append(scraped_documents, a) :
                a \in {x \in FreshArticles \cup LateArticles :
                        x.url \notin Urls(scraped_documents)}}

CanStart(mode) ==
    \/ mode = "first" /\ ipc = "idle" /\ run_mode = "none"
    \/ mode = "another" /\ ipc \in {"done", "aborted", "scrape_failed"} /\ run_mode = "first"
    \/ mode \in {"rerun", "plus_one"} /\ ipc \in {"done", "aborted"} /\ run_mode = "first"

\* store_documents is called and scraper.run() returns the batch
Scrape(mode, batch) ==
    /\ CanStart(mode)
    /\ scraped_documents' = batch
    /\ store_at_start' = collection
    /\ run_mode' = mode
    /\ duplicate_urls' = {}
    /\ non_duplicate_docs' = << >>
    /\ uuids' = << >>
    /\ embedded' = 0
    /\ ipc' = "scraped"
    /\ UNCHANGED <<collection, vector_store, next_uuid, qvars, cvars, tvars, other>>

\* the News Source (or language detection) raises inside scraper.run()
ScrapeRaises(mode) ==
    /\ CanStart(mode)
    /\ mode \in {"first", "another"}
    /\ scraped_documents' = << >>
    /\ store_at_start' = collection
    /\ run_mode' = mode
    /\ duplicate_urls' = {}
    /\ non_duplicate_docs' = << >>
    /\ uuids' = << >>
    /\ embedded' = 0
    /\ ipc' = "scrape_failed"
    /\ UNCHANGED <<collection, vector_store, next_uuid, qvars, cvars, tvars, other>>

\* urls = [...]; duplicate_urls = set(bulk_check_duplicates(urls))
CheckDuplicates ==
    /\ ipc = "scraped"
    /\ duplicate_urls' = bulk_check_duplicates(Urls(scraped_documents), collection)
    /\ ipc' = "checked"
    /\ UNCHANGED <<collection, vector_store, scraped_documents, non_duplicate_docs, uuids,
                   embedded, next_uuid, run_mode, store_at_start, qvars, cvars, tvars, other>>

\* ValidationRaises with the invalid candidates dropped and the valid ones
\* inserted
ValidationRaises_skips_invalid ==
    /\ ipc = "checked"
    /\ \E i \in 1..Len(Candidates) : ~DocumentModelValid(Candidates[i])
    /\ LET valid == SelectSeq(Candidates, DocumentModelValid)
       IN /\ non_duplicate_docs' = valid
          /\ collection' = collection \o valid
          /\ uuids' = [i \in 1..Len(valid) |-> next_uuid + i]
          /\ next_uuid' = next_uuid + Len(valid)
          /\ ipc' = IF valid = << >> THEN "done" ELSE "embedding"
    /\ embedded' = 0
    /\ UNCHANGED <<vector_store, scraped_documents, duplicate_urls, run_mode,
                   store_at_start, qvars, cvars, tvars, other>>

\* DocumentModel(**doc) raises for a candidate: the list comprehension and
\* with it the run is abandoned before anything is written
ValidationRaises ==
    /\ ipc = "checked"
    /\ \E i \in 1..Len(Candidates) : ~DocumentModelValid(Candidates[i])
    /\ ipc' = "aborted"
    /\ UNCHANGED <<collection, vector_store, scraped_documents, duplicate_urls,
                   non_duplicate_docs, uuids, embedded, next_uuid, run_mode,
                   store_at_start, qvars, cvars, tvars, other>>

\* InsertMany with the existence test repeated at the insert: only the
\* candidates whose url the store does not hold by now are written
InsertMany_recheck ==
    /\ ipc = "checked"
    /\ \A i \in 1..Len(Candidates) : DocumentModelValid(Candidates[i])
    /\ Candidates # << >>
    /\ LET fresh == SelectSeq(Candidates, LAMBDA doc : doc.url \notin Urls(collection))
       IN /\ non_duplicate_docs' = fresh
          /\ collection' = collection \o fresh
          /\ uuids' = [i \in 1..Len(fresh) |-> next_uuid + i]
          /\ next_uuid' = next_uuid + Len(fresh)
          /\ ipc' = IF fresh = << >> THEN "done" ELSE "embedding"
    /\ embedded' = 0
    /\ UNCHANGED <<vector_store, scraped_documents, duplicate_urls, run_mode,
                   store_at_start, qvars, cvars, tvars, other>>

\* InsertMany without the validation of the candidates; the index is left alone
InsertMany_unvalidated ==
    /\ ipc = "checked"
    /\ Candidates # << >>
    /\ non_duplicate_docs' = Candidates
    /\ collection' = collection \o Candidates
    /\ ipc' = "done"
    /\ UNCHANGED <<vector_store, scraped_documents, duplicate_urls, run_mode, uuids,
                   next_uuid, embedded, store_at_start, qvars, cvars, tvars, other>>

\* insert_many of the validated candidates; the uuids are generated
InsertMany ==
    /\ ipc = "checked"
    /\ \A i \in 1..Len(Candidates) : DocumentModelValid(Candidates[i])
    /\ Candidates # << >>
    /\ non_duplicate_docs' = Candidates
    /\ collection' = collection \o Candidates
    /\ uuids' = [i \in 1..Len(Candidates) |-> next_uuid + i]
    /\ next_uuid' = next_uuid + Len(Candidates)
    /\ embedded' = 0
    /\ ipc' = "embedding"
    /\ UNCHANGED <<vector_store, scraped_documents, duplicate_urls, run_mode,
                   store_at_start, qvars, cvars, tvars, other>>

\* the else branch: no new documents to insert
NothingNew ==
    /\ ipc = "checked"
    /\ Candidates = << >>
    /\ ipc' = "done"
    /\ UNCHANGED <<collection, vector_store, scraped_documents, duplicate_urls,
                   non_duplicate_docs, uuids, embedded, next_uuid, run_mode,
                   store_at_start, qvars, cvars, tvars, other>>

\* vector_store.add_documents(documents=[doc], ids=[doc_id]) for the next document
AddDocument ==
    /\ ipc = "embedding"
    /\ embedded < Len(non_duplicate_docs)
    /\ LET doc == vector_document(non_duplicate_docs[embedded + 1])
       IN vector_store' = Append(vector_store,
                                 [id |-> uuids[embedded + 1],
                                  page_content |-> doc.page_content,
                                  metadata |-> doc.metadata])
    /\ embedded' = embedded + 1
    /\ ipc' = IF embedded + 1 = Len(non_duplicate_docs) THEN "done" ELSE "embedding"
    /\ UNCHANGED <<collection, scraped_documents, duplicate_urls, non_duplicate_docs,
                   uuids, next_uuid, run_mode, store_at_start, qvars, cvars, tvars, other>>

\* the embedding service or the index raises for the next document
AddDocumentRaises ==
    /\ ipc = "embedding"
    /\ embedded < Len(non_duplicate_docs)
    /\ ipc' = "aborted"
    /\ UNCHANGED <<collection, vector_store, scraped_documents, duplicate_urls,
                   non_duplicate_docs, uuids, embedded, next_uuid, run_mode,
                   store_at_start, qvars, cvars, tvars, other>>

NextIngest ==
    \/ \E mode \in {"first", "another", "rerun", "plus_one"} :
            CanStart(mode) /\ \E batch \in Responses(mode) : Scrape(mode, batch)
    \/ \E mode \in {"first", "another"} : ScrapeRaises(mode)
    \/ CheckDuplicates
    \/ ValidationRaises
    \/ InsertMany
    \/ NothingNew
    \/ AddDocument
    \/ AddDocumentRaises

\* Two store_documents calls against the same stores and the same News
\* Source response.  The variables of the run hold the locals of the call
\* that is executing; the scheduler may suspend it between two external
\* calls and resume the other one.
Switch ==
    /\ other' = [ipc |-> ipc, scraped_documents |-> scraped_documents,
                 duplicate_urls |-> duplicate_urls,
                 non_duplicate_docs |-> non_duplicate_docs, uuids |-> uuids,
                 embedded |-> embedded, run_mode |-> run_mode,
                 store_at_start |-> store_at_start]
    /\ ipc' = other.ipc
    /\ scraped_documents' = other.scraped_documents
    /\ duplicate_urls' = other.duplicate_urls
    /\ non_duplicate_docs' = other.non_duplicate_docs
    /\ uuids' = other.uuids
    /\ embedded' = other.embedded
    /\ run_mode' = other.run_mode
    /\ store_at_start' = other.store_at_start
    /\ UNCHANGED <<collection, vector_store, next_uuid, qvars, cvars, tvars>>

NextConcurrent ==
    \/ \E batch \in (IF other.run_mode = "none" THEN Batches
                      ELSE {other.scraped_documents}) : Scrape("first", batch)
    \/ CheckDuplicates
    \/ ValidationRaises
    \/ InsertMany
    \/ NothingNew
    \/ AddDocument
    \/ AddDocumentRaises
    \/ Switch

(***************************************************************************)
(* Specifications                                                          *)
(***************************************************************************)
\* the defaults of _get_rag_response
DefaultConfig == [model |-> "gemini-1.5-pro", include_news |-> TRUE, max_results |-> 5, analysis_depth |-> "Standard"]
InitChat == chat_history = << >> /\ shown_error = None /\ config = DefaultConfig /\ first_call = None
\* no scraper and no retry wrapper running
InitTools ==
    /\ spc = "none"
    /\ scraper_tickers = << >>
    /\ start_date_obj = 1
    /\ end_date_obj = 0
    /\ ticker_index = 1
    /\ date = 1
    /\ request_count = 0
    /\ scraped_news = << >>
    /\ requests = << >>
    /\ slept = 0
    /\ rpc = "none"
    /\ max_retries = 0
    /\ delay = 0
    /\ backoff_factor = 1
    /\ attempt = 0
    /\ current_delay = 0
    /\ last_exception = None
    /\ attempts = << >>
    /\ sleeps = << >>
    /\ outcome = None
Init == InitQuery /\ InitIngest /\ InitChat /\ InitTools
Next == NextQuery
\* one process_query call, the stores untouched
Spec == Init /\ [][Next]_vars
\* ingestion runs one at a time, no query in progress
SpecIngest == Init /\ [][NextIngest]_vars
\* two ingestion runs interleaved
SpecConcurrent == Init /\ [][NextConcurrent]_vars

\* extract_tickers_from_query called on its own, for every bounded query
MaxFragments == 3
Fragments == {"AAPL", "msft", "Tesla", "$", " ", "stocks", "market", "outlook", "V", "1"}
RECURSIVE Joined(_)
Joined(parts) == IF Len(parts) = 0 THEN "" ELSE parts[1] \o Joined(Tail(parts))
ScenarioA == "What's the outlook for AAPL?"
ScenarioQueries ==
    {ScenarioA, "AAPL vs MSFT", "Is $AAPL or Tesla the better stock in this market outlook?",
     "latest news", "what should I buy", "latest market news", "buy on this outlook"}
ExtractQueries ==
    {Joined(parts) : parts \in SeqsUpTo(Fragments, MaxFragments)} \cup ScenarioQueries

InitExtract ==
    /\ InitIngest
    /\ InitChat
    /\ InitTools
    /\ pc = "extract"
    /\ query \in ExtractQueries
    /\ num_retrievals = DEFAULT_MAX_RESULTS
    /\ ticker_extraction = NoExtraction
    /\ retrieved_docs = << >>
    /\ news_items = << >>
    /\ ranked_news = << >>
    /\ context = ""
    /\ response = None
    /\ result = None
    /\ exc = None
    /\ pq_response = None
    /\ returned = None
    /\ calls = NoCalls
    /\ failed = {}
    /\ invoked = None
SpecExtract == InitExtract /\ [][ExtractTickers]_vars

\* rank_news_by_relevance and format_news_for_context called on their own.
\* The items are dicts as step 3 builds them; a caller may add a datetime key.
\* longest list built from every combination of the items
MaxItems == 3
RankItems ==
    {[headline |-> "AAPL outlook improves", summary |-> "Apple raises the outlook",
      ticker |-> Str("AAPL"), source |-> "https://n/1", relevance_score |-> 0],
     [headline |-> "AAPL outlook improves", summary |-> "Apple raises the outlook",
      ticker |-> Str("MSFT"), source |-> "https://n/2", relevance_score |-> 0],
     [headline |-> "AAPL outlook improves", summary |-> "Apple raises the outlook",
      ticker |-> Str("aapl"), source |-> "https://n/3", relevance_score |-> 0,
      datetime |-> 1700000000],
     [headline |-> "Market wrap", summary |-> "the week", ticker |-> Str(""),
      source |-> "Unknown", relevance_score |-> 0]}
\* lists around the limit of the context, every item with its own headline
LongList(n) ==
    [i \in 1..n |-> [headline |-> "Story " \o IntToStr(i), summary |-> "the week",
                     ticker |-> Str(IF i = n THEN "AAPL" ELSE ""), source |-> "Unknown",
                     relevance_score |-> 0]]
RankInputs ==
    SeqsUpTo(RankItems, MaxItems)
        \cup {LongList(n) : n \in (CONTEXT_LIMIT - 1)..(CONTEXT_LIMIT + 2)}
RankQueries == {"", "the AAPL outlook"}

InitRank ==
    /\ InitIngest
    /\ InitChat
    /\ InitTools
    /\ pc = "ranking"
    /\ query \in RankQueries
    /\ num_retrievals = DEFAULT_MAX_RESULTS
    /\ ticker_extraction \in extract_tickers_from_query(query)
    /\ retrieved_docs = << >>
    /\ news_items \in RankInputs
    /\ ranked_news = << >>
    /\ context = ""
    /\ response = None
    /\ result = None
    /\ exc = None
    /\ pq_response = None
    /\ returned = None
    /\ calls = NoCalls
    /\ failed = {}
    /\ invoked = None

\* ranked_news = rank_news_by_relevance(news_items, query, tickers); the call
\* writes the scores into the items of news_items
RankNews ==
    /\ pc = "ranking"
    /\ ranked_news' = rank_news_by_relevance(news_items, query, ticker_extraction.tickers)
    /\ news_items' = [i \in 1..Len(news_items) |->
                        scored(news_items[i], query, ticker_extraction.tickers)]
    /\ pc' = "ranked"
    /\ UNCHANGED <<query, num_retrievals, ticker_extraction, retrieved_docs, context,
                   response, result, exc, pq_response, returned, calls, failed, invoked,
                   ivars, cvars, tvars>>

\* the same call once more, on the list whose scores the first call wrote
RankRepeat ==
    /\ pc = "ranked"
    /\ ranked_news' = rank_news_by_relevance(news_items, query, ticker_extraction.tickers)
    /\ pc' = "repeated"
    /\ UNCHANGED <<query, num_retrievals, ticker_extraction, retrieved_docs, news_items,
                   context, response, result, exc, pq_response, returned, calls, failed,
                   invoked, ivars, cvars, tvars>>

\* the ranked list ranked again with the same query and tickers
RankAgain ==
    /\ pc = "ranked"
    /\ ranked_news' = rank_news_by_relevance(ranked_news, query, ticker_extraction.tickers)
    /\ pc' = "reranked"
    /\ UNCHANGED <<query, num_retrievals, ticker_extraction, retrieved_docs, news_items,
                   context, response, result, exc, pq_response, returned, calls, failed,
                   invoked, ivars, cvars, tvars>>

\* context = format_news_for_context(ranked_news)
FormatContext ==
    /\ pc = "ranked"
    /\ context' = format_news_for_context(ranked_news)
    /\ pc' = "formatted"
    /\ UNCHANGED <<query, num_retrievals, ticker_extraction, retrieved_docs, news_items,
                   ranked_news, response, result, exc, pq_response, returned, calls,
                   failed, invoked, ivars, cvars, tvars>>

NextRank == RankNews \/ RankRepeat \/ RankAgain \/ FormatContext
SpecRank == InitRank /\ [][NextRank]_vars

\* create_fallback_response called for an error of each class of
\* error_handling.py (Exception stands for every other class), as the except
\* clause of process_query calls it
ErrorKinds == {"TickerExtractionError", "FinnhubAPIError", "VectorStoreError", "LLMError",
               "MongoDBError", "Exception"}
InitFallback ==
    /\ InitIngest
    /\ InitChat
    /\ InitTools
    /\ pc = "pipeline_except"
    /\ query \in ScenarioQueries \cup {""}
    /\ exc \in {Some([kind |-> k, msg |-> m]) : k \in ErrorKinds, m \in {"", "timed out"}}
    /\ num_retrievals = DEFAULT_MAX_RESULTS
    /\ ticker_extraction = NoExtraction
    /\ retrieved_docs = << >>
    /\ news_items = << >>
    /\ ranked_news = << >>
    /\ context = ""
    /\ response = None
    /\ result = None
    /\ pq_response = None
    /\ returned = None
    /\ calls = NoCalls
    /\ failed = {}
    /\ invoked = None
SpecFallback == InitFallback /\ [][PipelineExcept]_vars

(***************************************************************************)
(* The chat front end: ChatInterface._process_user_input                   *)
(* (frontend/components/chat_interface.py) with InputValidator             *)
(* (frontend/utils/validators.py) in front of process_query                *)
(***************************************************************************)
\* validate_query without any test
validate_query_accepts_all(q) == [is_valid |-> TRUE, error_message |-> None]

\* InputValidator.validate_query: (is_valid, error_message)
validate_query(q) ==
    IF q = "" \/ strip(q) = ""
    THEN [is_valid |-> FALSE,
          error_message |-> Some("Please enter a question about financial markets or stocks.")]
    ELSE IF Len(strip(q)) < 3
    THEN [is_valid |-> FALSE,
          error_message |-> Some("Question is too short. Please provide more details.")]
    ELSE IF Len(strip(q)) > 1000
    THEN [is_valid |-> FALSE,
          error_message |->
            Some("Question is too long. Please keep it under 1000 characters.")]
    ELSE IF AnyTermIn({"<script", "javascript:", "<iframe", "<object", "<embed"}, lower(q))
    THEN [is_valid |-> FALSE,
          error_message |-> Some("Invalid characters detected in the query.")]
    ELSE [is_valid |-> TRUE, error_message |-> None]

\* questions a user asks in one session
MaxTurns == 1
BlankInputs == {"", "  ", " \n\t"}
ChatInputs == BlankInputs \cup {"ab", "<SCRIPT>alert(1)</script>", "What's the outlook for AAPL?"}

\* _process_user_input(user_input, config) up to the call of process_query;
\* the sidebar slider for max_results stands at its minimum, 1
ProcessUserInput(user_input) ==
    /\ pc = "idle"
    /\ LET checked == validate_query(user_input) IN
       IF ~checked.is_valid
       THEN /\ shown_error' = checked.error_message
            /\ UNCHANGED <<chat_history, qvars>>
       ELSE /\ Len(SelectSeq(chat_history, LAMBDA m : m.role = "user")) < MaxTurns
            /\ chat_history' = Append(chat_history, [role |-> "user", content |-> user_input])
            /\ query' = user_input
            /\ num_retrievals' = 1
            /\ pc' = "extract"
            /\ UNCHANGED <<shown_error, ticker_extraction, retrieved_docs, news_items,
                           ranked_news, context, response, result, exc, pq_response,
                           returned, calls, failed, invoked>>
    /\ UNCHANGED <<ivars, tvars, config, first_call>>

\* process_query has returned: the assistant message is added and the
\* locals of the finished call are gone
AddAssistantMessage ==
    /\ pc = "done"
    /\ chat_history' = Append(chat_history,
                              [role |-> "assistant", content |-> returned[1].summary])
    /\ pc' = "idle"
    /\ query' = ""
    /\ num_retrievals' = DEFAULT_MAX_RESULTS
    /\ ticker_extraction' = NoExtraction
    /\ retrieved_docs' = << >>
    /\ news_items' = << >>
    /\ ranked_news' = << >>
    /\ context' = ""
    /\ response' = None
    /\ result' = None
    /\ exc' = None
    /\ pq_response' = None
    /\ returned' = None
    /\ calls' = NoCalls
    /\ failed' = {}
    /\ invoked' = None
    /\ UNCHANGED <<shown_error, ivars, tvars, config, first_call>>

NextChat ==
    \/ \E user_input \in ChatInputs : ProcessUserInput(user_input)
    \/ ExtractTickers \/ SearchReturns \/ SearchRaises \/ RankAndCompose
    \/ InvokeReturns \/ InvokeRaises \/ Reconcile \/ GeneratorExcept
    \/ Convert \/ LogReturns \/ LogRaises \/ PipelineExcept
    \/ AddAssistantMessage
SpecChat == Init /\ [][NextChat]_vars

(***************************************************************************)
(* FinnHubScraper.run inside store_documents.  Dates are days of January   *)
(* 2024; the News Source answers a request with status 200 and the items   *)
(* it holds for the ticker and the day, with another status, or the        *)
(* request (or the language detection of an item) raises.                  *)
(***************************************************************************)
\* longest ticker list handed to the scraper
MaxTickers == 3
\* last day of the date range
MaxDays == 21
max_calls == 30
sleep_time == 60

\* get_sp500_tickers(), used when no tickers are given
SP500 == <<"MMM", "AOS">>

\* date.strftime("%Y-%m-%d")
strftime(d) == "2024-01-" \o CharAt("0123456789", (d \div 10) + 1) \o CharAt("0123456789", (d % 10) + 1)

\* langdetect.detect: one headline of the News Source is not English
detect(headline) == IF headline = "Apple hebt die Prognose an" THEN "de" ELSE "en"

\* the items the News Source holds for a ticker and a day
company_news(ticker, day) ==
    IF ticker = "AAPL" /\ day = strftime(2) THEN <<A1, Article("https://n/5", "Apple hebt die Prognose an", Some("Ausblick"), "AAPL")>>
    ELSE IF ticker = "MSFT" /\ day = strftime(3) THEN <<A2, Malformed>>
    ELSE << >>

\* store_news: the English items, in the order of the response
store_news(news_data) == SelectSeq(news_data, LAMBDA news : detect(news.headline) = "en")

\* store_documents(search_tickers) is called and the scraper constructed
InitScrape ==
    /\ InitQuery
    /\ InitChat
    /\ ipc = "idle"
    /\ collection \in {<< >>, <<A1>>}
    /\ vector_store = [i \in 1..Len(collection) |->
                        LET doc == vector_document(collection[i])
                        IN [id |-> i, page_content |-> doc.page_content,
                            metadata |-> doc.metadata]]
    /\ next_uuid = Len(collection)
    /\ scraped_documents = << >>
    /\ duplicate_urls = {}
    /\ non_duplicate_docs = << >>
    /\ uuids = << >>
    /\ embedded = 0
    /\ run_mode = "first"
    /\ store_at_start = collection
    /\ other = [ipc |-> "idle", scraped_documents |-> << >>, duplicate_urls |-> {},
                non_duplicate_docs |-> << >>, uuids |-> << >>, embedded |-> 0,
                run_mode |-> "none", store_at_start |-> << >>]
    /\ spc = "loop"
    /\ \E n \in 0..MaxTickers :
            LET tickers == SubSeq(<<"MSFT", "AAPL", "TSLA", "NVDA", "GOOGL">>, 1, n)
            IN scraper_tickers = (IF tickers # << >> THEN tickers ELSE SP500)
    /\ start_date_obj \in {1, 2}
    /\ end_date_obj \in 0..MaxDays
    /\ ticker_index = 1
    /\ date = start_date_obj
    /\ request_count = 0
    /\ scraped_news = << >>
    /\ requests = << >>
    /\ slept = 0
    /\ rpc = "none"
    /\ max_retries = 0
    /\ delay = 0
    /\ backoff_factor = 1
    /\ attempt = 0
    /\ current_delay = 0
    /\ last_exception = None
    /\ attempts = << >>
    /\ sleeps = << >>
    /\ outcome = None

\* FetchNews with the day left alone: the same day is requested again
FetchNews_same_day(status_code) ==
    /\ spc = "loop"
    /\ ticker_index <= Len(scraper_tickers)
    /\ date <= end_date_obj
    /\ Len(requests) < 3
    /\ request_count' = request_count + 1
    /\ requests' = Append(requests, <<scraper_tickers[ticker_index], strftime(date)>>)
    /\ UNCHANGED <<spc, date, scraped_news, scraper_tickers, start_date_obj, end_date_obj,
                   ticker_index, slept, rpc, max_retries, delay, backoff_factor, attempt,
                   current_delay, last_exception, attempts, sleeps, outcome,
                   qvars, ivars, cvars>>

\* FetchNews with every kept item written to the Document Store at once
FetchNews_writes_through(status_code) ==
    /\ spc = "loop"
    /\ ticker_index <= Len(scraper_tickers)
    /\ date <= end_date_obj
    /\ request_count' = request_count + 1
    /\ LET ticker == scraper_tickers[ticker_index]
           day == strftime(date)
           news_data == IF status_code = 200 THEN company_news(ticker, day) ELSE << >>
       IN /\ requests' = Append(requests, <<ticker, day>>)
          /\ scraped_news' = scraped_news \o store_news(news_data)
          /\ collection' = collection \o store_news(news_data)
    /\ date' = date + 1
    /\ spc' = IF request_count + 1 >= max_calls THEN "limit" ELSE "loop"
    /\ UNCHANGED <<scraper_tickers, start_date_obj, end_date_obj, ticker_index, slept,
                   rpc, max_retries, delay, backoff_factor, attempt, current_delay,
                   last_exception, attempts, sleeps, outcome, qvars, cvars, ipc,
                   vector_store, scraped_documents, duplicate_urls, non_duplicate_docs,
                   uuids, embedded, next_uuid, run_mode, store_at_start, other>>

\* one pass of the while loop up to the rate-limit test: the counter is
\* incremented, the request answered, its English items kept, the day advanced
FetchNews(status_code) ==
    /\ spc = "loop"
    /\ ticker_index <= Len(scraper_tickers)
    /\ date <= end_date_obj
    /\ request_count' = request_count + 1
    /\ LET ticker == scraper_tickers[ticker_index]
           day == strftime(date)
           news_data == IF status_code = 200 THEN company_news(ticker, day) ELSE << >>
       IN /\ requests' = Append(requests, <<ticker, day>>)
          /\ scraped_news' = scraped_news \o store_news(news_data)
    /\ date' = date + 1
    /\ spc' = IF request_count + 1 >= max_calls THEN "limit" ELSE "loop"
    /\ UNCHANGED <<scraper_tickers, start_date_obj, end_date_obj, ticker_index, slept,
                   rpc, max_retries, delay, backoff_factor, attempt, current_delay,
                   last_exception, attempts, sleeps, outcome, qvars, ivars, cvars>>

\* requests.get, response.json() or detect raises: nothing catches it in
\* the scraper or in store_documents, the run ends
FetchRaises ==
    /\ spc = "loop"
    /\ ticker_index <= Len(scraper_tickers)
    /\ date <= end_date_obj
    /\ request_count' = request_count + 1
    /\ requests' = Append(requests, <<scraper_tickers[ticker_index], strftime(date)>>)
    /\ spc' = "raised"
    /\ ipc' = "scrape_failed"
    /\ UNCHANGED <<scraped_news, date, scraper_tickers, start_date_obj, end_date_obj,
                   ticker_index, slept, rpc, max_retries, delay, backoff_factor, attempt,
                   current_delay, last_exception, attempts, sleeps, outcome,
                   qvars, cvars, collection, vector_store, scraped_documents,
                   duplicate_urls, non_duplicate_docs, uuids, embedded, next_uuid,
                   run_mode, store_at_start, other>>

\* RateLimit with the counter kept after the sleep
RateLimit_keeps_count ==
    /\ spc = "limit"
    /\ slept' = slept + sleep_time
    /\ spc' = "loop"
    /\ UNCHANGED <<request_count, scraper_tickers, start_date_obj, end_date_obj,
                   ticker_index, date, scraped_news, requests, rpc, max_retries, delay,
                   backoff_factor, attempt, current_delay, last_exception, attempts,
                   sleeps, outcome, qvars, ivars, cvars>>

\* if self.request_count >= self.max_calls: sleep and reset
RateLimit ==
    /\ spc = "limit"
    /\ slept' = slept + sleep_time
    /\ request_count' = 0
    /\ spc' = "loop"
    /\ UNCHANGED <<scraper_tickers, start_date_obj, end_date_obj, ticker_index, date,
                   scraped_news, requests, rpc, max_retries, delay, backoff_factor,
                   attempt, current_delay, last_exception, attempts, sleeps, outcome,
                   qvars, ivars, cvars>>

\* the while loop of a ticker ends; the for loop takes the next ticker
NextTicker ==
    /\ spc = "loop"
    /\ ticker_index <= Len(scraper_tickers)
    /\ date > end_date_obj
    /\ ticker_index' = ticker_index + 1
    /\ date' = start_date_obj
    /\ UNCHANGED <<spc, scraper_tickers, start_date_obj, end_date_obj, request_count,
                   scraped_news, requests, slept, rpc, max_retries, delay,
                   backoff_factor, attempt, current_delay, last_exception, attempts,
                   sleeps, outcome, qvars, ivars, cvars>>

\* run() returns self.scraped_news to store_documents
ScraperReturns ==
    /\ spc = "loop"
    /\ ticker_index > Len(scraper_tickers)
    /\ spc' = "returned"
    /\ scraped_documents' = scraped_news
    /\ ipc' = "scraped"
    /\ UNCHANGED <<scraper_tickers, start_date_obj, end_date_obj, ticker_index, date,
                   request_count, scraped_news, requests, slept, rpc, max_retries, delay,
                   backoff_factor, attempt, current_delay, last_exception, attempts,
                   sleeps, outcome, qvars, cvars, collection, vector_store,
                   duplicate_urls, non_duplicate_docs, uuids, embedded, next_uuid,
                   run_mode, store_at_start, other>>

NextScrape ==
    \/ \E status_code \in {200, 429} : FetchNews(status_code)
    \/ FetchRaises
    \/ RateLimit
    \/ NextTicker
    \/ ScraperReturns
    \/ CheckDuplicates
    \/ ValidationRaises
    \/ InsertMany
    \/ NothingNew
    \/ AddDocument
    \/ AddDocumentRaises
\* one store_documents call, from the construction of the scraper on
SpecScrape == InitScrape /\ [][NextScrape]_vars

(***************************************************************************)
(* retry_on_failure(max_retries, delay, backoff_factor) around a function  *)
(* that returns or raises an Exception on each call.  The exception of the *)
(* n-th call is identified by n; delays are whole seconds.                 *)
(***************************************************************************)
\* largest max_retries
MaxRetries == 3

\* the wrapper is called
InitRetry ==
    /\ InitQuery
    /\ InitIngest
    /\ InitChat
    /\ spc = "none"
    /\ scraper_tickers = << >>
    /\ start_date_obj = 1
    /\ end_date_obj = 0
    /\ ticker_index = 1
    /\ date = 1
    /\ request_count = 0
    /\ scraped_news = << >>
    /\ requests = << >>
    /\ slept = 0
    /\ rpc = "loop"
    /\ max_retries \in -1..MaxRetries
    /\ delay \in {0, 1, 3}
    /\ backoff_factor \in {1, 2, 3}
    /\ attempt = 0
    /\ current_delay = delay
    /\ last_exception = None
    /\ attempts = << >>
    /\ sleeps = << >>
    /\ outcome = None

\* return func(*args, **kwargs)
FuncReturns ==
    /\ rpc = "loop"
    /\ attempt <= max_retries
    /\ attempts' = Append(attempts, "returned")
    /\ outcome' = Some([kind |-> "return", of_call |-> Len(attempts) + 1])
    /\ rpc' = "returned"
    /\ UNCHANGED <<attempt, current_delay, last_exception, sleeps>>
    /\ UNCHANGED <<max_retries, delay, backoff_factor, spc, scraper_tickers, start_date_obj,
                   end_date_obj, ticker_index, date, request_count, scraped_news, requests,
                   slept, qvars, ivars, cvars>>

\* FuncRaises with the delay kept as it is
FuncRaises_constant_delay ==
    /\ rpc = "loop"
    /\ attempt <= max_retries
    /\ attempts' = Append(attempts, "raised")
    /\ last_exception' = Some(Len(attempts) + 1)
    /\ IF attempt < max_retries
       THEN /\ sleeps' = Append(sleeps, current_delay)
            /\ attempt' = attempt + 1
            /\ rpc' = "loop"
       ELSE /\ rpc' = "after_loop"
            /\ UNCHANGED <<sleeps, attempt>>
    /\ UNCHANGED <<outcome, current_delay>>
    /\ UNCHANGED <<max_retries, delay, backoff_factor, spc, scraper_tickers, start_date_obj,
                   end_date_obj, ticker_index, date, request_count, scraped_news, requests,
                   slept, qvars, ivars, cvars>>

\* func raises an Exception: it is kept; before the last attempt the wrapper
\* sleeps current_delay and multiplies it, after the last one it breaks
FuncRaises ==
    /\ rpc = "loop"
    /\ attempt <= max_retries
    /\ attempts' = Append(attempts, "raised")
    /\ last_exception' = Some(Len(attempts) + 1)
    /\ IF attempt < max_retries
       THEN /\ sleeps' = Append(sleeps, current_delay)
            /\ current_delay' = current_delay * backoff_factor
            /\ attempt' = attempt + 1
            /\ rpc' = "loop"
       ELSE /\ rpc' = "after_loop"
            /\ UNCHANGED <<sleeps, current_delay, attempt>>
    /\ UNCHANGED outcome
    /\ UNCHANGED <<max_retries, delay, backoff_factor, spc, scraper_tickers, start_date_obj,
                   end_date_obj, ticker_index, date, request_count, scraped_news, requests,
                   slept, qvars, ivars, cvars>>

\* raise last_exception, after the break or after a loop over the empty
\* range; raising None is a TypeError
RaiseLast ==
    /\ rpc = "after_loop" \/ (rpc = "loop" /\ attempt > max_retries)
    /\ outcome' = Some([kind |-> "raise",
                        of_call |-> IF last_exception = None THEN "TypeError"
                                    ELSE last_exception[1]])
    /\ rpc' = "raised"
    /\ UNCHANGED <<attempt, current_delay, last_exception, attempts, sleeps>>
    /\ UNCHANGED <<max_retries, delay, backoff_factor, spc, scraper_tickers, start_date_obj,
                   end_date_obj, ticker_index, date, request_count, scraped_news, requests,
                   slept, qvars, ivars, cvars>>

NextRetry == FuncReturns \/ FuncRaises \/ RaiseLast
SpecRetry == InitRetry /\ [][NextRetry]_vars

(***************************************************************************)
(* One scraped document is ingested, which encodes it for the vector       *)
(* index, and the entries of the index are then parsed as step 3 of the    *)
(* Answer Generator parses the documents a search returns.                 *)
(***************************************************************************)
InitRoundTrip ==
    /\ InitQuery
    /\ InitChat
    /\ InitTools
    /\ ipc = "scraped"
    /\ collection = << >>
    /\ \E entry \in {ForeignDoc, NullTickerDoc,
                     [page_content |-> "Headline: Fed holds rates",
                      metadata |-> [source |-> Some("https://n/8"),
                                    ticker |-> Some(Str("SPY"))]]} :
            vector_store = <<[id |-> 0, page_content |-> entry.page_content,
                              metadata |-> entry.metadata]>>
    /\ \E headline \in {"AAPL outlook improves", " Fed holds", "Earnings ", "x",
                        "Headline: rates", "Ticker: AAPL wins", "Q3 Summary: strong", " "},
          summary \in {"Apple raises the outlook", "Up 3% ", " a", " ",
                       "Summary: profits rose", "Beats. Headline: none",
                       "Moved Ticker: MSFT"},
          ticker \in {"AAPL", ""} :
            scraped_documents = <<Article("https://n/1", headline, Some(summary), ticker)>>
    /\ duplicate_urls = {}
    /\ non_duplicate_docs = << >>
    /\ uuids = << >>
    /\ embedded = 0
    /\ next_uuid = 0
    /\ run_mode = "first"
    /\ store_at_start = << >>
    /\ other = [ipc |-> "idle", scraped_documents |-> << >>, duplicate_urls |-> {},
                non_duplicate_docs |-> << >>, uuids |-> << >>, embedded |-> 0,
                run_mode |-> "none", store_at_start |-> << >>]

\* the search returns the entries of the index and step 3 parses them
ParseStored ==
    /\ ipc = "done"
    /\ pc = "idle"
    /\ retrieved_docs' = [i \in 1..Len(vector_store) |->
                            [page_content |-> vector_store[i].page_content,
                             metadata |-> vector_store[i].metadata]]
    /\ news_items' = [i \in 1..Len(vector_store) |-> parse_document(vector_store[i])]
    /\ pc' = "rank"
    /\ UNCHANGED <<query, num_retrievals, ticker_extraction, ranked_news, context,
                   response, result, exc, pq_response, returned, calls, failed, invoked,
                   ivars, cvars, tvars>>

SpecRoundTrip == InitRoundTrip /\ [][CheckDuplicates \/ InsertMany \/ AddDocument \/ ParseStored]_vars

(***************************************************************************)
(* Two process_query calls with the same query and max_results and with    *)
(* different model, include_news or analysis_depth.  The second call gets  *)
(* from the vector search, the completion service and the logging the      *)
(* responses the first call got, and Python sets iterate in the same       *)
(* order in both calls.                                                    *)
(***************************************************************************)
\* a second call is followed after first calls that retrieved at most this
\* many documents
MaxReplayDocs == 1

\* CallConfigured with max_results doubled for the analysis depth "Deep"
CallConfigured_depth(q, cfg) ==
    /\ pc = "idle"
    /\ first_call # None =>
            /\ q = first_call[1].query
            /\ cfg # first_call[1].config
            /\ cfg.max_results = first_call[1].config.max_results
    /\ config' = cfg
    /\ query' = q
    /\ num_retrievals' = (IF cfg.max_results = 0 THEN DEFAULT_MAX_RESULTS ELSE cfg.max_results)
                            * (IF cfg.analysis_depth = "Deep" THEN 2 ELSE 1)
    /\ pc' = "extract"
    /\ UNCHANGED <<ticker_extraction, retrieved_docs, news_items, ranked_news, context,
                   response, result, exc, pq_response, returned, calls, failed, invoked,
                   chat_history, shown_error, first_call, ivars, tvars>>

\* process_query(q, **cfg): model, include_news and analysis_depth are
\* resolved into locals that nothing reads; max_results or self.max_results
\* is handed to retrieve_and_generate_response
CallConfigured(q, cfg) ==
    /\ pc = "idle"
    /\ first_call # None =>
            /\ q = first_call[1].query
            /\ cfg # first_call[1].config
            /\ cfg.max_results = first_call[1].config.max_results
    /\ config' = cfg
    /\ query' = q
    /\ num_retrievals' = IF cfg.max_results = 0 THEN DEFAULT_MAX_RESULTS ELSE cfg.max_results
    /\ pc' = "extract"
    /\ UNCHANGED <<ticker_extraction, retrieved_docs, news_items, ranked_news, context,
                   response, result, exc, pq_response, returned, calls, failed, invoked,
                   chat_history, shown_error, first_call, ivars, tvars>>

\* the first call has returned: what it saw and returned is kept and its
\* locals are gone
RecordFirstCall ==
    /\ pc = "done"
    /\ first_call = None
    /\ Len(retrieved_docs) <= MaxReplayDocs
    /\ first_call' = Some([config |-> config, query |-> query,
                           num_retrievals |-> num_retrievals,
                           ticker_extraction |-> ticker_extraction,
                           retrieved_docs |-> retrieved_docs, context |-> context,
                           invoked |-> invoked, result |-> result, failed |-> failed,
                           calls |-> calls, returned |-> returned])
    /\ pc' = "idle"
    /\ query' = ""
    /\ num_retrievals' = DEFAULT_MAX_RESULTS
    /\ ticker_extraction' = NoExtraction
    /\ retrieved_docs' = << >>
    /\ news_items' = << >>
    /\ ranked_news' = << >>
    /\ context' = ""
    /\ response' = None
    /\ result' = None
    /\ exc' = None
    /\ pq_response' = None
    /\ returned' = None
    /\ calls' = NoCalls
    /\ failed' = {}
    /\ invoked' = None
    /\ UNCHANGED <<chat_history, shown_error, config, ivars, tvars>>

NextConfig ==
    \/ \E q \in PipelineQueries, model \in {"gemini-1.5-pro", "gemini-2.5-flash"},
          include_news \in BOOLEAN, max_results \in {0, 1},
          analysis_depth \in {"Standard", "Deep"} :
            /\ first_call = None =>
                    (model = "gemini-1.5-pro" /\ include_news /\ analysis_depth = "Standard")
            /\ first_call # None =>
                    Cardinality({model, first_call[1].config.model}) +
                    Cardinality({include_news, first_call[1].config.include_news}) +
                    Cardinality({analysis_depth, first_call[1].config.analysis_depth})
                        \in {4, 6}
            /\ CallConfigured(q, [model |-> model, include_news |-> include_news,
                                  max_results |-> max_results,
                                  analysis_depth |-> analysis_depth])
    \/ RecordFirstCall
    \/ ExtractTickers
            /\ (first_call # None => ticker_extraction' = first_call[1].ticker_extraction)
    \/ SearchReturns
            /\ (first_call # None =>
                    /\ "search" \notin first_call[1].failed
                    /\ retrieved_docs' = first_call[1].retrieved_docs)
    \/ SearchRaises /\ (first_call # None => "search" \in first_call[1].failed)
    \/ RankAndCompose
    \/ InvokeReturns /\ (first_call # None => invoked' = first_call[1].invoked)
    \/ InvokeRaises /\ (first_call # None => "invoke" \in first_call[1].failed)
    \/ Reconcile
            /\ (first_call # None =>
                    result'[1].mentioned_tickers = first_call[1].result[1].mentioned_tickers)
    \/ GeneratorExcept
    \/ Convert
    \/ LogReturns /\ (first_call # None => "log" \notin first_call[1].failed)
    \/ LogRaises /\ (first_call # None => "log" \in first_call[1].failed)
    \/ PipelineExcept
SpecConfig == Init /\ [][NextConfig]_vars

(***************************************************************************)
(* Properties of process_query                                             *)
(***************************************************************************)
SevenKeys == {"summary", "key_insights", "mentioned_tickers", "sentiment",
              "confidence_score", "related_news", "sources"}
\* retrieve_and_generate_response has returned the reconciled model answer
Succeeded == invoked # None /\ result # None
Returned == pc = "done"

\* C1: process_query never raises: whatever the query and the outcomes of
\* the vector search, the completion service and the logging call, the call
\* is never left by an exception, and the finished call has returned a
\* mapping with exactly the seven keys.
C1_NeverRaisesSevenKeys ==
    /\ pc # "raised"
    /\ Returned => exc = None /\ returned # None /\ DOMAIN returned[1] = SevenKeys

\* the empty query, with the vector search and then the logging call raising
C1_Witness ==
    /\ Returned
    /\ query = ""
    /\ failed = {"search", "log"}
    /\ DOMAIN returned[1] = SevenKeys

\* C2: the returned confidence_score is in [0,1] and the returned sentiment
\* is one of positive, negative, neutral, for every completion-service value.
C2_ConfidenceAndSentimentInRange ==
    Returned =>
        /\ returned[1].confidence_score \in {Some(v) : v \in 0..100}
        /\ returned[1].sentiment \in {Some("positive"), Some("negative"), Some("neutral")}

VectorStoreSummary ==
    create_fallback_response("", [kind |-> "VectorStoreError", msg |-> ""]).summary

\* C3: when the similarity search raises, the returned answer has
\* confidence_score 0.0, no tickers and the vector-store canned summary.
C3_SearchFailureGivesVectorStoreText ==
    (Returned /\ "search" \in failed) =>
        /\ returned[1].confidence_score = Some(0)
        /\ returned[1].mentioned_tickers = << >>
        /\ returned[1].summary = VectorStoreSummary

\* C4: when a step of the call fails, the returned answer has
\* confidence_score 0.0, no tickers, no news and sentiment neutral, also
\* when tickers were extracted and documents retrieved before the failure.
C4_FailureGivesEmptyNeutralAnswer ==
    (Returned /\ failed # {}) =>
        /\ returned[1].confidence_score = Some(0)
        /\ returned[1].mentioned_tickers = << >>
        /\ returned[1].related_news = << >>
        /\ returned[1].sentiment = Some("neutral")

\* the completion service fails after tickers were extracted and documents retrieved
C4_Witness ==
    /\ Returned
    /\ failed = {"invoke"}
    /\ ticker_extraction.tickers # << >>
    /\ retrieved_docs # << >>
    /\ returned[1].mentioned_tickers = << >>

\* C5: when the completion service returned a schema-conforming answer, the
\* mentioned_tickers of the answer retrieve_and_generate_response returns
\* are, as a set, the union of the model's tickers and the extracted ones,
\* without a duplicate; process_query copies the list into its mapping and
\* returns it when the logging call does not raise.
C5_TickersAreUnion ==
    Succeeded =>
        /\ Range(result[1].mentioned_tickers) =
                Range(invoked[1].mentioned_tickers) \cup Range(ticker_extraction.tickers)
        /\ NoDuplicates(result[1].mentioned_tickers)
        /\ pq_response # None =>
                pq_response[1].mentioned_tickers = result[1].mentioned_tickers
        /\ (Returned /\ "log" \notin failed) =>
                returned[1].mentioned_tickers = result[1].mentioned_tickers

\* the model repeats a ticker and names the extracted one too
C5_Witness ==
    /\ Returned
    /\ Succeeded
    /\ ~NoDuplicates(invoked[1].mentioned_tickers)
    /\ Range(invoked[1].mentioned_tickers) \cap Range(ticker_extraction.tickers) # {}
    /\ Len(returned[1].mentioned_tickers) = 2

\* C6: when the completion service returned a schema-conforming answer, the
\* news list of the answer is the first min(5, n) items of the ranked list,
\* in ranked order, whatever top_news the model sent, so never more than 5;
\* process_query copies it into related_news and returns it when the logging
\* call does not raise.
C6_TopNewsIsRankedPrefix ==
    Succeeded =>
        LET top == result[1].top_news IN
        /\ Len(top) = Min(5, Len(ranked_news))
        /\ Len(top) <= 5
        /\ \A i \in 1..Len(top) :
            /\ top[i].headline = ranked_news[i].headline
            /\ top[i].summary = ranked_news[i].summary
            /\ top[i].ticker = ranked_news[i].ticker.v
            /\ top[i].source = ranked_news[i].source
            /\ top[i].relevance_score = Some(ranked_news[i].relevance_score)
        /\ pq_response # None => pq_response[1].related_news = top
        /\ (Returned /\ "log" \notin failed) => returned[1].related_news = top

\* six documents were ranked into another order than retrieved, the model
\* sent a citation of its own, and five items are returned
C6_Witness ==
    /\ Returned
    /\ Succeeded
    /\ invoked[1].top_news # << >>
    /\ Len(ranked_news) = 6
    /\ ranked_news[1].source # GetOr(retrieved_docs[1].metadata.source, "Unknown")
    /\ Len(returned[1].related_news) = 5

(***************************************************************************)
(* Properties of ingestion                                                 *)
(***************************************************************************)
\* the current run is past its decision to insert
RunDecided == ipc \in {"embedding", "done", "aborted"}
\* the records the current run added to the Document Store
Inserted == SubSeq(collection, Len(store_at_start) + 1, Len(collection))
NotStoredAtStart(doc) == doc.url \notin Urls(store_at_start)
\* the scraped documents whose url the store did not hold at the existence test
NewAtCheck == SelectSeq(scraped_documents, NotStoredAtStart)
AllValid(docs) == \A i \in 1..Len(docs) : DocumentModelValid(docs[i])

\* C7: after any sequence of ingestion runs executed one at a time, the
\* Document Store holds at most one record per url.
C7_AtMostOneRecordPerUrl ==
    \A i, j \in 1..Len(collection) : collection[i].url = collection[j].url => i = j

\* C8 as stated: a run inserts exactly the scraped documents whose url was
\* not in the store at the existence check.
C8_InsertsEveryNewDocument == RunDecided => Inserted = NewAtCheck

\* C8 amended: a run inserts exactly the scraped documents whose url was not
\* in the store at the existence check when all of these pass validation,
\* and nothing when one of them fails it; a run on the unchanged response
\* inserts nothing; after 3 fresh documents, the same 3 plus 1 new one
\* insert only the new one.
C8_InsertsExactlyNewValid ==
    RunDecided =>
        /\ Inserted = (IF AllValid(NewAtCheck) THEN NewAtCheck ELSE << >>)
        /\ run_mode = "rerun" => Inserted = << >>
        /\ (/\ run_mode = "plus_one"
            /\ Len(scraped_documents) = 4
            /\ Cardinality(Urls(scraped_documents)) = 4
            /\ AllValid(scraped_documents))
           => Inserted = <<scraped_documents[4]>>

\* 3 fresh documents were ingested, then the same 3 plus 1 new one
C8_Witness ==
    /\ ipc = "done"
    /\ run_mode = "plus_one"
    /\ Len(scraped_documents) = 4
    /\ Cardinality(Urls(scraped_documents)) = 4
    /\ Len(store_at_start) = 3
    /\ Inserted = <<A4>>

(***************************************************************************)
(* Properties of the Ticker Extractor                                      *)
(***************************************************************************)
Extracted == pc = "search"

\* C9: every extracted ticker is in COMMON_TICKERS or a value of the
\* company-name mapping, and the ticker list has no duplicates.
C9_TickersKnownAndDistinct ==
    Extracted =>
        /\ Range(ticker_extraction.tickers) \subseteq
                COMMON_TICKERS \cup {m[2] : m \in company_mappings}
        /\ NoDuplicates(ticker_extraction.tickers)

\* one ticker found by the pattern after upper-casing, one by company name
C9_Witness ==
    /\ Extracted
    /\ query = "msft Tesla"
    /\ Range(ticker_extraction.tickers) = {"MSFT", "TSLA"}

\* C10: confidence = min(1.0, 0.4 [a ticker found] + 0.2 [more than one]
\* + min(0.3, 0.1 * keywords in the query) + 0.2 [a $TICKER pattern]); it is
\* in [0,1], at least 0.4 when a ticker is found (as for "What's the outlook
\* for AAPL?") and 0 without ticker, keyword and $-pattern.
C10_ConfidenceFormula ==
    Extracted =>
        LET n == Cardinality(Range(ticker_extraction.tickers))
            keywords == Cardinality({k \in FINANCIAL_KEYWORDS : Contains(lower(query), k)})
            dollar == DollarTickerPattern(query)
            confidence == ticker_extraction.confidence
        IN /\ confidence = Min(100, (IF n >= 1 THEN 40 ELSE 0) + (IF n > 1 THEN 20 ELSE 0)
                                    + Min(30, 10 * keywords) + (IF dollar THEN 20 ELSE 0))
           /\ confidence \in 0..100
           /\ n >= 1 => confidence >= 40
           /\ (n = 0 /\ keywords = 0 /\ ~dollar) => confidence = 0
           /\ query = ScenarioA =>
                "AAPL" \in Range(ticker_extraction.tickers) /\ confidence >= 40

\* two tickers, three keywords and a $-pattern: the sum 1.1 is capped at 1.0
C10_Witness ==
    /\ Extracted
    /\ Len(ticker_extraction.tickers) > 1
    /\ financial_word_count(query) >= 3
    /\ DollarTickerPattern(query)
    /\ ticker_extraction.confidence = 100

\* C11: query_type follows a strict priority: one ticker gives
\* stock_specific, more than one multi_stock_comparison ("AAPL vs MSFT");
\* without ticker the first group with a term occurring in the lower-cased
\* query, in the order market, news, analysis, investment, decides;
\* otherwise general_financial.  A ticker overrides every keyword group and
\* the value is always one of the seven.
C11_QueryTypeByPriority ==
    Extracted =>
        LET n == Cardinality(Range(ticker_extraction.tickers))
            type == ticker_extraction.query_type
            text == lower(query)
            has(terms) == \E term \in terms : Contains(text, term)
            market == has({"market", "economy", "sector", "industry", "overall", "general"})
            news == has({"news", "latest", "recent", "update", "announcement"})
            analysis == has({"analyze", "analysis", "forecast", "predict", "outlook"})
            investment == has({"invest", "buy", "sell", "portfolio", "recommend"})
        IN /\ type \in {"stock_specific", "multi_stock_comparison", "market_general",
                        "news_request", "analysis_request", "investment_advice",
                        "general_financial"}
           /\ n = 1 <=> type = "stock_specific"
           /\ n > 1 <=> type = "multi_stock_comparison"
           /\ (n = 0 /\ market) <=> type = "market_general"
           /\ (n = 0 /\ ~market /\ news) <=> type = "news_request"
           /\ (n = 0 /\ ~market /\ ~news /\ analysis) <=> type = "analysis_request"
           /\ (n = 0 /\ ~market /\ ~news /\ ~analysis /\ investment)
                <=> type = "investment_advice"
           /\ query = "AAPL vs MSFT" => type = "multi_stock_comparison"

\* a ticker and terms of two keyword groups in one query
C11_Witness ==
    /\ Extracted
    /\ query = "Is $AAPL or Tesla the better stock in this market outlook?"
    /\ ticker_extraction.query_type = "multi_stock_comparison"

(***************************************************************************)
(* Properties of the ranking and of the context                            *)
(***************************************************************************)
\* C12: rank_news_by_relevance returns the input items by non-increasing
\* computed score, and items of equal score keep their input order: the
\* item at input position k stands after the items of greater score and
\* the earlier items of equal score.
C12_RankedDescendingStable ==
    pc = "ranked" =>
        LET n == Len(news_items)
            score(k) == news_items[k].relevance_score
            position(k) == 1 + Cardinality({j \in 1..n : score(j) > score(k)})
                             + Cardinality({j \in 1..(k - 1) : score(j) = score(k)})
        IN /\ Len(ranked_news) = n
           /\ \A k \in 1..n : ranked_news[position(k)] = news_items[k]
           /\ \A i \in 1..(n - 1) :
                ranked_news[i].relevance_score >= ranked_news[i + 1].relevance_score

\* a list that the ranking reorders and that holds two different items of
\* equal score
C12_Witness ==
    /\ pc = "ranked"
    /\ ranked_news # news_items
    /\ \E i, j \in 1..Len(ranked_news) :
        /\ i < j
        /\ ranked_news[i] # ranked_news[j]
        /\ ranked_news[i].relevance_score = ranked_news[j].relevance_score

\* C13: the score of an item is 0.5 if its upper-cased ticker is among the
\* extracted tickers, plus 0.1 per distinct lower-cased word shared by query
\* and headline, plus 0.05 per distinct word shared by query and summary,
\* nothing for a datetime field; of two items with the same word overlap the
\* one whose ticker matches is ranked strictly before the one whose ticker
\* does not.
C13_ScoreFormula ==
    pc = "ranked" =>
        LET words == Words(lower(query))
            in_headline(item) == Cardinality(words \cap Words(lower(item.headline)))
            in_summary(item) == Cardinality(words \cap Words(lower(item.summary)))
            matches(item) == upper(item.ticker.v) \in Range(ticker_extraction.tickers)
        IN /\ \A i \in 1..Len(ranked_news) :
                ranked_news[i].relevance_score =
                    (IF matches(ranked_news[i]) THEN 50 ELSE 0)
                    + 10 * in_headline(ranked_news[i]) + 5 * in_summary(ranked_news[i])
           /\ \A i, j \in 1..Len(ranked_news) :
                (/\ in_headline(ranked_news[i]) = in_headline(ranked_news[j])
                 /\ in_summary(ranked_news[i]) = in_summary(ranked_news[j])
                 /\ matches(ranked_news[i])
                 /\ ~matches(ranked_news[j])) => i < j

\* two items with the same text, the first with another ticker, the second
\* with the extracted ticker in lower case and a datetime field
C13_Witness ==
    /\ pc = "ranked"
    /\ ticker_extraction.tickers = <<"AAPL">>
    /\ Len(news_items) = 2
    /\ news_items[1].ticker.v = "MSFT"
    /\ news_items[2].ticker.v = "aapl"
    /\ "datetime" \in DOMAIN news_items[2]
    /\ news_items[1].headline = news_items[2].headline
    /\ ranked_news = <<news_items[2], news_items[1]>>
    /\ ranked_news[1].relevance_score = 80

\* C14: the ranking is deterministic and idempotent: the same call once
\* more on the same list (whose relevance_score fields the first call
\* overwrote) and the ranking of the ranked list both give the order the
\* first call gave.
C14_RankDeterministicIdempotent ==
    [][(RankRepeat \/ RankAgain) => ranked_news' = ranked_news]_vars

\* a reordered list with two different items of equal score, ranked again
C14_Witness ==
    /\ pc = "reranked"
    /\ ranked_news # news_items
    /\ \E i, j \in 1..Len(ranked_news) :
        /\ i < j
        /\ ranked_news[i] # ranked_news[j]
        /\ ranked_news[i].relevance_score = ranked_news[j].relevance_score

\* C15: format_news_for_context renders min(10, n) entries, the first ones
\* of the ranked list in order, numbered from 1, and the sentinel text for
\* the empty list; an item beyond the tenth does not appear.
C15_ContextTopTen ==
    pc = "formatted" =>
        LET n == Len(ranked_news)
            shown == Min(10, n)
            places(text) == {p \in 1..(Len(context) - Len(text) + 1) :
                                SubSeq(context, p, p + Len(text) - 1) = text}
            entry(i) == IntToStr(i) \o ". " \o ranked_news[i].headline \o "\n"
                        \o "   Summary: " \o ranked_news[i].summary \o "\n"
        IN IF n = 0 THEN context = "No recent news available."
           ELSE /\ Cardinality(places("   Summary: ")) = shown
                /\ Cardinality(places("   Source: ")) = shown
                /\ \A i \in 1..shown : Cardinality(places(entry(i))) = 1
                /\ 1 \in places(entry(1))
                /\ \A i \in 1..(shown - 1) :
                    \A p \in places(entry(i)), r \in places(entry(i + 1)) : p < r
                /\ \A i \in (shown + 1)..n :
                    places(ranked_news[i].headline \o "\n") = {}

\* twelve items, the last one ranked first; the tenth entry is shown, the
\* items ranked eleventh and twelfth are not
C15_Witness ==
    /\ pc = "formatted"
    /\ Len(ranked_news) = 12
    /\ ranked_news[1].headline = "Story 12"
    /\ Contains(context, "10. Story 9\n")
    /\ ~Contains(context, "Story 10\n")

(***************************************************************************)
(* Properties of the chat front end                                        *)
(***************************************************************************)
\* C16: an empty or whitespace-only input is rejected by the validation with
\* a non-empty error message before anything else happens: no message is
\* added to the chat history and process_query is not called for it.
C16_BlankInputRejected ==
    [][(\E user_input \in BlankInputs : ProcessUserInput(user_input)) =>
            /\ shown_error' # None
            /\ shown_error'[1] # ""
            /\ chat_history' = chat_history
            /\ pc' = "idle"
            /\ calls' = calls
            /\ query' = query]_vars

\* a blank input after a finished question: the history keeps its two
\* messages and the error is shown
C16_Witness ==
    /\ pc = "idle"
    /\ Len(chat_history) = 2
    /\ shown_error = Some("Please enter a question about financial markets or stocks.")

(***************************************************************************)
(* Properties of interleaved ingestion runs                                *)
(***************************************************************************)
\* C17: with two ingestion runs interleaved on the same response, both runs
\* can pass the url existence test before either inserts; whenever both have
\* passed it with no url found and both have inserted, the Document Store
\* holds two records of one url.
C17_BothPassCheckThenDuplicate ==
    (/\ ipc \in {"embedding", "done"}
     /\ other.ipc \in {"embedding", "done"}
     /\ scraped_documents # << >>
     /\ other.scraped_documents = scraped_documents
     /\ duplicate_urls = {}
     /\ other.duplicate_urls = {})
    => \E i, j \in 1..Len(collection) :
            i # j /\ collection[i].url = collection[j].url

\* both runs scraped the same documents with distinct urls, neither saw a
\* stored url, both finished: every url is stored twice
C17_Witness ==
    /\ ipc = "done"
    /\ other.ipc = "done"
    /\ Len(scraped_documents) = 2
    /\ Cardinality(Urls(scraped_documents)) = 2
    /\ other.scraped_documents = scraped_documents
    /\ duplicate_urls = {}
    /\ other.duplicate_urls = {}
    /\ Len(collection) = 4
    /\ \A u \in Urls(scraped_documents) :
            Cardinality({i \in 1..Len(collection) : collection[i].url = u}) = 2

(***************************************************************************)
(* Properties of the fallback policy                                       *)
(***************************************************************************)
\* C18: the fallback answer is keyed by error kind: the summary/insights
\* pair selected for an error of one of the six kinds differs from the pair
\* selected for the same error under every other kind.
C18_FallbackKeyedByKind ==
    [][PipelineExcept =>
        \A k \in ErrorKinds \ {exc[1].kind} :
            LET answer == create_fallback_response(query, [kind |-> k, msg |-> exc[1].msg])
            IN <<returned'[1].summary, returned'[1].key_insights>>
                    # <<answer.summary, answer.key_insights>>]_vars

(***************************************************************************)
(* Temporal properties of process_query                                    *)
(***************************************************************************)
\* C19: a process_query call that has ended has exactly one of the outcomes
\* Succeeded (the answer built from the model's answer is returned) and
\* FallbackProduced; a failure is handled once and nothing is retried: the
\* vector search and the completion service are invoked at most once, at
\* most one step of the generator fails, no later step of the generator
\* has run after the failed one, and every step moves the call forward, so
\* that no step is taken twice.
C19_OneOutcomeNoRetry ==
    /\ [][LET pos == [idle |-> 0, extract |-> 1, search |-> 2, rank |-> 3, invoke |-> 4,
                      reconcile |-> 5, generator_except |-> 6, convert |-> 7, log |-> 8,
                      pipeline_except |-> 9, done |-> 10, raised |-> 10]
          IN pos[pc'] > pos[pc]]_vars
    /\ [](/\ calls.search <= 1
          /\ calls.llm <= 1
          /\ Cardinality(failed \cap {"search", "rank", "invoke"}) <= 1
          /\ "search" \in failed =>
                news_items = << >> /\ ranked_news = << >> /\ calls.llm = 0
          /\ "rank" \in failed => ranked_news = << >> /\ context = "" /\ calls.llm = 0
          /\ "invoke" \in failed => response = None /\ invoked = None
          /\ pc \in {"generator_except", "pipeline_except"} <=> exc # None
          /\ Returned =>
                IF failed = {}
                THEN /\ invoked # None
                     /\ returned = pq_response
                     /\ returned[1].summary = invoked[1].summary
                ELSE /\ returned[1].confidence_score = Some(0)
                     /\ returned[1].mentioned_tickers = << >>
                     /\ returned[1].related_news = << >>
                     /\ returned[1].summary # "Analysis.")

\* the search raised: one search call, no completion call, a fallback returned
C19_Witness ==
    /\ Returned
    /\ failed = {"search"}
    /\ calls.search = 1
    /\ calls.llm = 0
    /\ returned[1].confidence_score = Some(0)

\* C20: within one query the steps run in the order ticker extraction,
\* retrieval, ranking, context composition, completion: the completion
\* service is invoked only after the retrieval returned and the context was
\* composed, never when the retrieval failed, and also when the retrieval
\* returned no documents, then with the sentinel text as context.
C20_StepsInOrder ==
    /\ calls.search > 0 => ticker_extraction.query_type # ""
    /\ ranked_news # << >> => calls.search = 1 /\ retrieved_docs # << >>
    /\ context # "" => calls.search = 1 /\ Len(ranked_news) = Len(retrieved_docs)
    /\ calls.llm > 0 =>
            /\ calls.search = 1
            /\ "search" \notin failed
            /\ context # ""
            /\ retrieved_docs = << >> <=> context = "No recent news available."
    /\ (/\ pc \in {"reconcile", "convert", "log", "pipeline_except", "done"}
        /\ failed \cap {"search", "rank"} = {})
       => calls.llm = 1

\* the retrieval returned no documents and the completion service was
\* invoked with the sentinel context
C20_Witness ==
    /\ calls.search = 1
    /\ "search" \notin failed
    /\ retrieved_docs = << >>
    /\ calls.llm = 1
    /\ context = "No recent news available."
    /\ invoked # None

(***************************************************************************)
(* Properties of the scraper                                               *)
(***************************************************************************)
\* C21: the call counter is incremented once per News Source request and
\* carries over from ticker to ticker; when it reaches 30 the run sleeps
\* 60 s and resets it before the next request: the counter is the number of
\* requests since the last cool-down, it is in 0..29 whenever a request is
\* about to be issued, never above 30, and the cool-downs taken are one per
\* 30 requests.
C21_RateLimit ==
    LET cooldowns == slept \div sleep_time IN
    /\ slept = cooldowns * sleep_time
    /\ request_count = Len(requests) - max_calls * cooldowns
    /\ request_count \in 0..max_calls
    /\ spc = "loop" => request_count \in 0..(max_calls - 1)
    /\ spc = "loop" => cooldowns = Len(requests) \div max_calls
    /\ spc = "limit" => request_count = max_calls
    /\ max_calls = 30
    /\ sleep_time = 60

\* two cool-downs were taken, the second in the middle of a date range, and
\* requests were issued after it
C21_Witness ==
    /\ slept = 2 * sleep_time
    /\ Len(requests) > 2 * max_calls
    /\ request_count = Len(requests) - 2 * max_calls
    /\ Cardinality({requests[i][1] : i \in 1..Len(requests)}) >= 2

\* C22: a scraping run calls the News Source once for every (ticker, day)
\* with day in start..end, in the order of the ticker list and in ascending
\* day order within a ticker: the i-th request is for ticker number
\* (i-1) div days + 1 and day start + (i-1) mod days; a run that returns has
\* issued |tickers| x days requests, none when start is after end.
C22_ScrapeOrder ==
    LET days == IF end_date_obj >= start_date_obj THEN end_date_obj - start_date_obj + 1
                ELSE 0
    IN /\ \A i \in 1..Len(requests) :
            /\ days > 0
            /\ (i - 1) \div days + 1 <= Len(scraper_tickers)
            /\ requests[i] = <<scraper_tickers[(i - 1) \div days + 1],
                               strftime(start_date_obj + ((i - 1) % days))>>
       /\ spc = "returned" => Len(requests) = Len(scraper_tickers) * days
       /\ \A i, j \in 1..Len(requests) : requests[i] = requests[j] => i = j

\* a run over three tickers and more than one day has returned
C22_Witness ==
    /\ spc = "returned"
    /\ Len(scraper_tickers) = 3
    /\ end_date_obj > start_date_obj
    /\ Len(requests) = 3 * (end_date_obj - start_date_obj + 1)
    /\ requests[Len(requests)] = <<"TSLA", strftime(end_date_obj)>>

\* C28: every News Source request of an ingestion run is completed before
\* the first write: while the scraper runs, and after a request or the
\* language detection raised, the Document Store and the vector index are
\* as they were when the run began, and the run is over; a response with a
\* status other than 200 adds no item and the loop goes on with the next day.
C28_RequestsBeforeWrites ==
    /\ [](/\ (collection # store_at_start \/ Len(vector_store) # Len(store_at_start))
                => /\ spc = "returned"
                   /\ Len(requests) = Len(scraper_tickers)
                                        * (end_date_obj - start_date_obj + 1)
          /\ spc \in {"loop", "limit"} => ipc = "idle"
          /\ spc = "raised"
                => /\ ipc = "scrape_failed"
                   /\ collection = store_at_start
                   /\ Len(vector_store) = Len(store_at_start)
                   /\ scraped_documents = << >>)
    /\ [][FetchNews(429) =>
            /\ scraped_news' = scraped_news
            /\ date' = date + 1
            /\ spc' \in {"loop", "limit"}]_vars

\* the request for the third day raised after an item had been scraped:
\* nothing was written
C28_Witness ==
    /\ spc = "raised"
    /\ Len(requests) = 3
    /\ scraped_news = <<A1>>
    /\ collection = << >>
    /\ vector_store = << >>

(***************************************************************************)
(* Properties of retry_on_failure                                          *)
(***************************************************************************)
\* C23: the wrapped function is attempted at most max_retries + 1 times;
\* only the last attempt made can have returned, and its result is what the
\* wrapper returns; the sleeps taken are exactly one after each failed
\* attempt that is not attempt number max_retries + 1, the i-th of
\* delay x backoff_factor^(i-1); when the wrapper raises, all
\* max_retries + 1 attempts have failed and the exception is that of the
\* last attempt.
C23_RetryWrapper ==
    LET pow[n \in 0..(MaxRetries + 2)] == IF n = 0 THEN 1 ELSE backoff_factor * pow[n - 1]
        failures == {i \in 1..Len(attempts) : attempts[i] = "raised"}
    IN /\ Len(attempts) <= max_retries + 1
       /\ \A i \in 1..Len(attempts) : attempts[i] = "returned" => i = Len(attempts)
       /\ Len(sleeps) = Cardinality({i \in failures : i <= max_retries})
       /\ \A i \in 1..Len(sleeps) : sleeps[i] = delay * pow[i - 1]
       /\ rpc = "returned" =>
            /\ attempts[Len(attempts)] = "returned"
            /\ outcome = Some([kind |-> "return", of_call |-> Len(attempts)])
       /\ (rpc = "raised" /\ max_retries >= 0) =>
            /\ Len(attempts) = max_retries + 1
            /\ failures = 1..Len(attempts)
            /\ Len(sleeps) = max_retries
            /\ outcome = Some([kind |-> "raise", of_call |-> max_retries + 1])
       /\ rpc \in {"loop", "after_loop"} => outcome = None

\* three retries with delay 1 and factor 2: four failed attempts, sleeps of
\* 1, 2 and 4 seconds, the fourth exception raised
C23_Witness ==
    /\ rpc = "raised"
    /\ max_retries = 3
    /\ Len(attempts) = 4
    /\ sleeps = <<1, 2, 4>>
    /\ outcome = Some([kind |-> "raise", of_call |-> 4])

(***************************************************************************)
(* Error handling and atomicity of ingestion                               *)
(***************************************************************************)
\* C24: a scraped candidate that fails validation is never inserted into
\* the Document Store nor the vector index, and the run does not try it
\* again: every stored record is valid, every index entry is the encoding
\* of a stored record, the step at which validation fails writes nothing,
\* and the only step after it is the start of another run.
C24_InvalidNeverInserted ==
    /\ [](/\ \A i \in 1..Len(collection) : DocumentModelValid(collection[i])
          /\ \A j \in 1..Len(vector_store) :
                \E i \in 1..Len(collection) :
                    /\ vector_store[j].page_content
                            = vector_document(collection[i]).page_content
                    /\ vector_store[j].metadata = vector_document(collection[i]).metadata)
    /\ [][ValidationRaises =>
            /\ ipc' = "aborted"
            /\ collection' = collection
            /\ vector_store' = vector_store]_vars
    /\ [][ipc = "aborted" =>
            /\ ipc' \in {"scraped", "scrape_failed"}
            /\ store_at_start' = collection
            /\ collection' = collection
            /\ vector_store' = vector_store]_vars

\* a run with an invalid candidate has ended and the stores hold nothing
C24_Witness ==
    /\ ipc = "aborted"
    /\ run_mode = "first"
    /\ \E i \in 1..Len(Candidates) : ~DocumentModelValid(Candidates[i])
    /\ collection = << >>
    /\ vector_store = << >>

\* C25: records and index entries are created together: when a run has
\* ended, every record it inserted has exactly one index entry whose
\* metadata source is the record's url, the identifiers of the entries are
\* pairwise distinct, and every entry belongs to a stored record.
C25_RecordsAndEntriesTogether ==
    ipc \in {"done", "aborted"} =>
        /\ \A i \in (Len(store_at_start) + 1)..Len(collection) :
                Cardinality({j \in 1..Len(vector_store) :
                    vector_store[j].metadata.source = Some(collection[i].url)}) = 1
        /\ \A j, k \in 1..Len(vector_store) :
                vector_store[j].id = vector_store[k].id => j = k
        /\ \A j \in 1..Len(vector_store) :
                \E i \in 1..Len(collection) :
                    vector_store[j].metadata.source = Some(collection[i].url)

\* C26: when a candidate of the batch fails validation, the run ends before
\* the bulk insert: the failing step writes nothing, and the run has
\* inserted no record and added no index entry, valid candidates included.
C26_BatchAbortsOnInvalid ==
    /\ [][ValidationRaises =>
            /\ ipc' = "aborted"
            /\ collection' = collection
            /\ vector_store' = vector_store]_vars
    /\ []((/\ ipc \in {"embedding", "done", "aborted"}
           /\ \E i \in 1..Len(Candidates) : ~DocumentModelValid(Candidates[i]))
          => /\ ipc = "aborted"
             /\ collection = store_at_start
             /\ non_duplicate_docs = << >>
             /\ uuids = << >>
             /\ embedded = 0)

\* a batch with a valid new document and an invalid one was abandoned with
\* nothing inserted
C26_Witness ==
    /\ ipc = "aborted"
    /\ Len(Candidates) >= 2
    /\ \E i \in 1..Len(Candidates) : ~DocumentModelValid(Candidates[i])
    /\ \E i \in 1..Len(Candidates) : DocumentModelValid(Candidates[i])
    /\ collection = store_at_start
    /\ uuids = << >>

\* C27: when the index insert fails for the k-th document of a batch, the
\* records k..n of the batch are in the Document Store and no index entry
\* carries their identifiers; a run indexes only documents whose url the
\* store did not hold when it began, so that no later run indexes them.
C27_FailedIndexInsertLeavesOrphans ==
    /\ []((ipc = "aborted" /\ non_duplicate_docs # << >>) =>
            /\ embedded < Len(non_duplicate_docs)
            /\ \A i \in (embedded + 1)..Len(non_duplicate_docs) :
                /\ \E r \in 1..Len(collection) : collection[r] = non_duplicate_docs[i]
                /\ \A j \in 1..Len(vector_store) : vector_store[j].id # uuids[i])
    /\ [][AddDocument =>
            /\ Len(vector_store') = Len(vector_store) + 1
            /\ vector_store'[Len(vector_store')].metadata.source[1]
                    \notin {store_at_start[r].url : r \in 1..Len(store_at_start)}]_vars
    /\ [](Len(vector_store) <= Len(collection))

\* the first run stored two records and failed at the first index insert;
\* the run on the unchanged response has ended and the index is still empty
C27_Witness ==
    /\ run_mode = "rerun"
    /\ ipc = "done"
    /\ Len(store_at_start) = 2
    /\ collection = store_at_start
    /\ vector_store = << >>

(***************************************************************************)
(* Encoding at ingestion and parsing at query time                         *)
(***************************************************************************)
\* C29 as stated: for a document encoded at ingestion from headline H,
\* summary S, ticker T and url, with H and S non-empty, H without
\* "Summary:" and S without "Ticker:", the parser yields headline H,
\* summary S, ticker T and source url; content without the "Headline:" or
\* the "Summary:" marker yields the two literals.
C29_RoundTripAsStated ==
    pc = "rank" =>
        LET doc == scraped_documents[1]
            item == news_items[2]
            other_item == news_items[1]
            content == retrieved_docs[1].page_content
        IN /\ (/\ doc.headline # ""
               /\ doc.summary[1] # ""
               /\ ~Contains(doc.headline, "Summary:")
               /\ ~Contains(doc.summary[1], "Ticker:"))
              => /\ item.headline = doc.headline
                 /\ item.summary = doc.summary[1]
                 /\ item.ticker = Str(doc.ticker)
                 /\ item.source = doc.url
           /\ (~Contains(content, "Headline:") \/ ~Contains(content, "Summary:"))
              => /\ other_item.headline = "No headline available"
                 /\ other_item.summary = "No summary available"

\* C29 amended: the same, for H and S that in addition have no leading or
\* trailing white space, H without "Headline:" and S without "Summary:".
C29_RoundTrip ==
    pc = "rank" =>
        LET doc == scraped_documents[1]
            item == news_items[2]
            other_item == news_items[1]
            content == retrieved_docs[1].page_content
        IN /\ (/\ doc.headline # ""
               /\ doc.summary[1] # ""
               /\ strip(doc.headline) = doc.headline
               /\ strip(doc.summary[1]) = doc.summary[1]
               /\ ~Contains(doc.headline, "Summary:")
               /\ ~Contains(doc.headline, "Headline:")
               /\ ~Contains(doc.summary[1], "Summary:")
               /\ ~Contains(doc.summary[1], "Ticker:"))
              => /\ item.headline = doc.headline
                 /\ item.summary = doc.summary[1]
                 /\ item.ticker = Str(doc.ticker)
                 /\ item.source = doc.url
           /\ (~Contains(content, "Headline:") \/ ~Contains(content, "Summary:"))
              => /\ other_item.headline = "No headline available"
                 /\ other_item.summary = "No summary available"

\* a headline with "Ticker:" and a summary with "Headline:" in it came back
\* unchanged, next to an entry with a headline only that got both literals
C29_Witness ==
    /\ pc = "rank"
    /\ scraped_documents[1].headline = "Ticker: AAPL wins"
    /\ scraped_documents[1].summary = Some("Beats. Headline: none")
    /\ news_items[2].headline = "Ticker: AAPL wins"
    /\ news_items[2].summary = "Beats. Headline: none"
    /\ news_items[2].source = "https://n/1"
    /\ retrieved_docs[1].page_content = "Headline: Fed holds rates"
    /\ news_items[1].summary = "No summary available"

=============================================================================
